---------------------------- MODULE Spec2Model ----------------------------
(***************************************************************************)
(* A state-machine model of the dnd-ai-simulator backend: the state store  *)
(* (GameStateManager), the module router (ModuleManager), the gameplay     *)
(* modules (movement, combat, inventory, spells) and the turn controller.  *)
(*                                                                         *)
(* The game state is threaded through the operators as one record S (the   *)
(* fields of GameStateManager plus the per-module bookkeeping); every      *)
(* module operation is an operator from (S, action, dice) to a result      *)
(* record [state, ret], ret being "true", "false" or "raise".  The actions *)
(* at the end of the module apply these operators to the variables.        *)
(***************************************************************************)
EXTENDS Integers, Sequences, FiniteSets, TLC

VARIABLES
    characters,          \* gsm.characters: id -> Character (present ids only)
    roster,              \* insertion order of the keys of gsm.characters
    combat_active,       \* gsm.combat_active
    turn_order,          \* gsm.turn_order
    current_turn_index,  \* gsm.current_turn_index
    game_log,            \* gsm.game_log
    map_data,            \* gsm.map_data
    movement_used,       \* MovementModule.movement_used (absent key = 0)
    dm,                  \* AIDMChatModule.dm_initialized, Gemini_DM.chat
    modules,             \* ModuleManager.modules, in registration order
    last,                \* the most recent call: operation, input, dice, return value
    obs                  \* observer: advance_turn calls since the last start_combat,
                         \* accepted dashes of each character since its last reset

gsmVars == <<characters, roster, combat_active, turn_order,
             current_turn_index, game_log, map_data, movement_used, dm>>
vars == <<characters, roster, combat_active, turn_order,
          current_turn_index, game_log, map_data, movement_used, dm, modules,
          last, obs>>

(***************************************************************************)
(* Bounds of the model.                                                    *)
(***************************************************************************)
MaxModules == 3      \* stub modules registered with the router
MaxLog == 6          \* no new call is started once the log is this long
MaxHealthLog == 7    \* the same, in the hit point specification
MaxDamage == 11      \* largest amount passed to apply_damage directly
MaxMoveLog == 4      \* no new move is started once the log is this long
MaxLongLog == 53     \* no new call is started once a long log is this long
MaxConsoleLog == 3   \* log lines kept in the console loop specification

(***************************************************************************)
(* Program constants.                                                      *)
(***************************************************************************)
D20 == 20
D8 == 8
DamageBonus == 2
DefaultAttackBonus == 3
MeleeRange == 1
DefaultMapSize == 10
LogTail == 50

Ids == {"player", "goblin_1", "orc_1", "villager"}
NoId == "<none>"          \* a key missing from an action record (None)
GhostId == "ghost"        \* an id that never resolves to a character
NoType == "<missing>"     \* an action record without a type tag

Min(a, b) == IF a < b THEN a ELSE b
Max(a, b) == IF a > b THEN a ELSE b
Abs(x) == IF x < 0 THEN -x ELSE x


(***************************************************************************)
(* The stat provider (DnDAPIClient).  A lookup returns a stat block or the *)
(* absence signal; the blocks below are the answers the model draws from.  *)
(***************************************************************************)
NoStats == [kind |-> "none", hit_points |-> 0, armor_class |-> 0,
            strength |-> 0, dexterity |-> 0, constitution |-> 0,
            proficiency_bonus |-> 0, hit_die |-> 0, class_name |-> "",
            race_bonus |-> 0, speed |-> 0, level |-> 0]

MonsterBlocks ==
    { [NoStats EXCEPT !.kind = "monster", !.hit_points = 7, !.armor_class = 15,
                      !.strength = 8, !.dexterity = 14, !.constitution = 10,
                      !.proficiency_bonus = 2] }

PlayerBlocks ==
    { [NoStats EXCEPT !.kind = "player", !.hit_die = 10, !.class_name = "fighter",
                      !.race_bonus = 1, !.speed = 30, !.level = 1],
      [NoStats EXCEPT !.kind = "player", !.hit_die = 6, !.class_name = "wizard",
                      !.race_bonus = 1, !.speed = 30, !.level = 1] }

\* The provider has the class of a player but not its race, or its race but
\* not its class.
HalfAnswers ==
    { [NoStats EXCEPT !.kind = "class_only", !.hit_die = 10, !.class_name = "fighter",
                      !.level = 1],
      [NoStats EXCEPT !.kind = "race_only", !.race_bonus = 1, !.speed = 30,
                      !.level = 1] }

\* What the provider can answer for a character of the given category.
ProviderAnswers(char_type) ==
    CASE char_type = "monster" -> {NoStats} \cup MonsterBlocks
      [] char_type = "player"  -> {NoStats} \cup PlayerBlocks
      [] OTHER                 -> {NoStats}

calculate_ability_modifier(ability_score) == (ability_score - 10) \div 2

calculate_proficiency_bonus(level) == 2 + ((level - 1) \div 4)

(***************************************************************************)
(* Items (inventory.py).  The Item objects are those created by            *)
(* _give_starting_equipment; their only mutable field is the quantity.     *)
(***************************************************************************)
NoItem == "<no item>"
NoDice == <<0, 0, 0>>

ItemCatalog ==
    [ Longsword |-> [type |-> "weapon", has_attack_bonus |-> TRUE, attack_bonus |-> 0,
                     has_ac_bonus |-> FALSE, ac_bonus |-> 0,
                     has_healing |-> FALSE, healing |-> NoDice, quantity |-> 1],
      ChainMail |-> [type |-> "armor", has_attack_bonus |-> FALSE, attack_bonus |-> 0,
                     has_ac_bonus |-> TRUE, ac_bonus |-> 6,
                     has_healing |-> FALSE, healing |-> NoDice, quantity |-> 1],
      Shield    |-> [type |-> "shield", has_attack_bonus |-> FALSE, attack_bonus |-> 0,
                     has_ac_bonus |-> TRUE, ac_bonus |-> 2,
                     has_healing |-> FALSE, healing |-> NoDice, quantity |-> 1],
      HealingPotion |-> [type |-> "consumable", has_attack_bonus |-> FALSE, attack_bonus |-> 0,
                     has_ac_bonus |-> FALSE, ac_bonus |-> 0,
                     has_healing |-> TRUE, healing |-> <<2, 4, 2>>, quantity |-> 2],
      Rations   |-> [type |-> "misc", has_attack_bonus |-> FALSE, attack_bonus |-> 0,
                     has_ac_bonus |-> FALSE, ac_bonus |-> 0,
                     has_healing |-> FALSE, healing |-> NoDice, quantity |-> 10] ]

ItemNames == DOMAIN ItemCatalog

StartingItems == <<"Longsword", "ChainMail", "Shield", "HealingPotion", "Rations">>

BaseSlots == {"weapon", "armor", "shield"}

\* Every value a roll of "<n>d<sides>+<mod>" can take.
RollDice(dice) == (dice[1] + dice[3]) .. (dice[1] * dice[2] + dice[3])

(***************************************************************************)
(* Spells (spells.py).                                                     *)
(***************************************************************************)
SpellDatabase ==
    [ cure_wounds   |-> [level |-> 1, range |-> "touch"],
      magic_missile |-> [level |-> 1, range |-> "120 feet"],
      shield        |-> [level |-> 1, range |-> "self"],
      fireball      |-> [level |-> 3, range |-> "150 feet"] ]

SpellNames == DOMAIN SpellDatabase
SpellLevels == 1..5
NoSlots == [l \in SpellLevels |-> 0]
CasterClasses == {"wizard", "sorcerer", "cleric"}

(***************************************************************************)
(* Character (core/character.py).                                          *)
(***************************************************************************)
_initialize_defaults(char_type) ==
    [hp |-> IF char_type = "player" THEN 20 ELSE 10,
     max_hp |-> IF char_type = "player" THEN 20 ELSE 10,
     ac |-> IF char_type = "player" THEN 15 ELSE 12,
     attack_bonus |-> IF char_type = "player" THEN 5 ELSE 3,
     strength |-> 13, dexterity |-> 12, constitution |-> 14,
     class_name |-> "", speed |-> 0]

_initialize_from_monster_api(char_type, monster_stats) ==
    IF monster_stats.kind = "monster"
    THEN [hp |-> monster_stats.hit_points,
          max_hp |-> monster_stats.hit_points,
          ac |-> monster_stats.armor_class,
          attack_bonus |-> calculate_ability_modifier(monster_stats.strength)
                             + monster_stats.proficiency_bonus,
          strength |-> monster_stats.strength,
          dexterity |-> monster_stats.dexterity,
          constitution |-> monster_stats.constitution,
          class_name |-> "", speed |-> 0]
    ELSE _initialize_defaults(char_type)

\* A player built from the class data although the race is missing.
Mutant_initialize_from_player_api_class_only(char_type, st) ==
    IF st.kind \in {"player", "class_only"}
    THEN LET con_modifier == calculate_ability_modifier(13 + st.race_bonus)
             hpmax == st.hit_die + con_modifier
         IN [hp |-> hpmax, max_hp |-> hpmax,
             ac |-> 10 + calculate_ability_modifier(14 + st.race_bonus),
             attack_bonus |-> calculate_ability_modifier(15 + st.race_bonus)
                                + calculate_proficiency_bonus(st.level),
             strength |-> 15 + st.race_bonus, dexterity |-> 14 + st.race_bonus,
             constitution |-> 13 + st.race_bonus,
             class_name |-> st.class_name, speed |-> st.speed]
    ELSE _initialize_defaults(char_type)

_initialize_from_player_api(char_type, st) ==
    IF st.kind = "player"
    THEN LET str == 15 + st.race_bonus
             dex == 14 + st.race_bonus
             con == 13 + st.race_bonus
             con_modifier == calculate_ability_modifier(con)
             hpmax == st.hit_die + con_modifier
                        + ((st.level - 1) * (st.hit_die \div 2 + 1 + con_modifier))
         IN [hp |-> hpmax, max_hp |-> hpmax,
             ac |-> 10 + calculate_ability_modifier(dex),
             attack_bonus |-> calculate_ability_modifier(str)
                                + calculate_proficiency_bonus(st.level),
             strength |-> str, dexterity |-> dex, constitution |-> con,
             class_name |-> st.class_name, speed |-> st.speed]
    ELSE _initialize_defaults(char_type)

\* Character.__init__: the attributes the constructor sets, then the ones the
\* modules attach later (absent until a module initialises them).
Character(char_type, position, stats) ==
    LET base == CASE char_type = "monster" -> _initialize_from_monster_api(char_type, stats)
                  [] char_type = "player"  -> _initialize_from_player_api(char_type, stats)
                  [] OTHER                 -> _initialize_defaults(char_type)
    IN [type |-> char_type, position |-> position, initiative |-> 0,
        hp |-> base.hp, max_hp |-> base.max_hp, ac |-> base.ac,
        attack_bonus |-> base.attack_bonus,
        strength |-> base.strength, dexterity |-> base.dexterity,
        constitution |-> base.constitution,
        class_name |-> base.class_name, speed |-> base.speed,
        has_inventory |-> FALSE, inventory |-> <<>>,
        equipped |-> [s \in BaseSlots |-> NoItem],
        quantity |-> [n \in ItemNames |-> ItemCatalog[n].quantity],
        has_equipment_ac_bonus |-> FALSE, equipment_ac_bonus |-> 0,
        has_equipment_attack_bonus |-> FALSE, equipment_attack_bonus |-> 0,
        has_spells |-> FALSE, spells_known |-> {},
        spell_slots |-> NoSlots, spell_slots_used |-> NoSlots,
        dashed_this_turn |-> FALSE, temp_ac_bonus |-> 0]

get_ability_modifier(character, ability_name) ==
    CASE ability_name = "dexterity" -> calculate_ability_modifier(character.dexterity)
      [] ability_name = "strength"  -> calculate_ability_modifier(character.strength)
      [] OTHER -> calculate_ability_modifier(character.constitution)

(***************************************************************************)
(* State store (core/game_state.py, GameStateManager.py).                  *)
(***************************************************************************)
\* map_data: its size and the cells of each terrain category.
NoMap == [loaded |-> FALSE, width |-> 0, height |-> 0, trees |-> {}, rocks |-> {}]

\* AIDMChatModule.__init__, Gemini_DM.__init__: no session yet.
NoSession == [dm_initialized |-> FALSE, chat |-> FALSE]

\* The module and its agent after a session was opened.
OpenSession == [dm_initialized |-> TRUE, chat |-> TRUE]

\* GameStateManager.__init__
EmptyState ==
    [characters |-> <<>>, roster |-> <<>>, combat_active |-> FALSE,
     turn_order |-> <<>>, current_turn_index |-> 0, game_log |-> <<>>,
     map_data |-> NoMap,
     movement_used |-> [i \in Ids |-> 0],
     dm |-> NoSession]

\* map_data.get("width", 10), map_data.get("height", 10)
MapWidthOf(S) == IF S.map_data.loaded THEN S.map_data.width ELSE DefaultMapSize
MapHeightOf(S) == IF S.map_data.loaded THEN S.map_data.height ELSE DefaultMapSize

HasCharacter(S, char_id) == char_id \in DOMAIN S.characters

add_to_log(S, message) == [S EXCEPT !.game_log = Append(@, message)]

\* self.characters[char_id] = Character(...): a new key goes to the end of the
\* dict, an existing key keeps its place and gets the new object.
\* An add_character that enrols a new id in the running combat.
Mutant_add_character_joins_combat(S, char_id, char_type, position, stats) ==
    LET c == Character(char_type, position, stats)
    IN IF HasCharacter(S, char_id)
       THEN [S EXCEPT !.characters = [@ EXCEPT ![char_id] = c]]
       ELSE [S EXCEPT !.characters = [i \in DOMAIN @ \cup {char_id} |->
                                         IF i = char_id THEN c ELSE @[i]],
                      !.roster = Append(@, char_id),
                      !.turn_order = IF S.combat_active THEN Append(@, char_id) ELSE @]

add_character(S, char_id, char_type, position, stats) ==
    LET c == Character(char_type, position, stats)
    IN IF HasCharacter(S, char_id)
       THEN [S EXCEPT !.characters = [@ EXCEPT ![char_id] = c]]
       ELSE [S EXCEPT !.characters = [i \in DOMAIN @ \cup {char_id} |->
                                         IF i = char_id THEN c ELSE @[i]],
                      !.roster = Append(@, char_id)]

\* A serialisation that keeps the first entries of the log.
Mutant_serialize_state_log_head(S) ==
    IF Len(S.game_log) <= LogTail THEN S.game_log
    ELSE SubSeq(S.game_log, 1, LogTail)

serialize_state_log(S) ==
    IF Len(S.game_log) <= LogTail THEN S.game_log
    ELSE SubSeq(S.game_log, Len(S.game_log) - LogTail + 1, Len(S.game_log))

\* A distance that counts a diagonal step as one square.
Mutant_distance_chebyshev(p, q) == Max(Abs(p[1] - q[1]), Abs(p[2] - q[2]))

ManhattanDistance(p, q) == Abs(p[1] - q[1]) + Abs(p[2] - q[2])

(***************************************************************************)
(* Action records.  A missing key is NoId / NoItem / NoSpell, a missing    *)
(* position has has_position = FALSE.                                      *)
(***************************************************************************)
NoSpell == "<no spell>"

NoAction ==
    [type |-> NoType, character_id |-> NoId, attacker_id |-> NoId,
     target_id |-> NoId, has_position |-> FALSE, position |-> <<0, 0>>,
     item_name |-> NoItem, spell_name |-> NoSpell]

\* action_data.get('character_id', 'player')
CharacterIdOf(a) == IF a.character_id = NoId THEN "player" ELSE a.character_id

\* action_data.get('attacker_id', 'player')
AttackerIdOf(a) == IF a.attacker_id = NoId THEN "player" ELSE a.attacker_id

\* tuple(action_data.get('position', [0, 0]))
PositionOf(a) == IF a.has_position THEN a.position ELSE <<0, 0>>

\* The dice one call may roll, and what the narrative agent does when the
\* call reaches it: dm_session is the fate of Gemini_DM.initialize_session
\* ("ok", "no_chat" when start_chat raises, "no_reply" when the first
\* send_message raises), dm_reply that of the send_message of get_npc_actions
\* ("narrates", "acts" for function calls other than narrate, "fails");
\* dm_calls are the move_character and attack_character calls of an "acts"
\* reply.
NoDiceRolls == [d20 |-> 1, d8 |-> 1, heal |-> 0, spell |-> 0,
                dm_session |-> "ok", dm_reply |-> "acts", dm_calls |-> <<>>,
                initiative |-> [i \in Ids |-> 1]]

\* A function call of the narrative agent (Gemini_DM._parse_response).
MoveCharacterCall(character_id, new_position) ==
    [function |-> "move_character", character_id |-> character_id,
     new_position |-> new_position, attacker_id |-> NoId, target_id |-> NoId]

AttackCharacterCall(attacker_id, target_id) ==
    [function |-> "attack_character", character_id |-> NoId,
     new_position |-> <<0, 0>>, attacker_id |-> attacker_id, target_id |-> target_id]

Result(S, r) == [state |-> S, ret |-> r]

SetCharacter(S, char_id, c) == [S EXCEPT !.characters[char_id] = c]

\* GameStateManager.move_character (GameStateManager.py): bounds and
\* occupancy only, no budget and no terrain.
move_character(S, char_id, new_position) ==
    IF ~HasCharacter(S, char_id) THEN Result(S, "false")
    ELSE IF 0 <= new_position[1] /\ new_position[1] < MapWidthOf(S)
            /\ 0 <= new_position[2] /\ new_position[2] < MapHeightOf(S)
    THEN IF \E o \in DOMAIN S.characters :
                 o # char_id /\ S.characters[o].position = new_position
         THEN Result(S, "false")
         ELSE Result(add_to_log([S EXCEPT !.characters[char_id].position = new_position],
                                <<"moved", char_id>>), "true")
    ELSE Result(S, "false")

(***************************************************************************)
(* MovementModule (modules/movement.py).                                   *)
(***************************************************************************)
_get_character_speed(character) ==
    IF character.speed # 0 THEN character.speed ELSE 30

\* The loop over the terrain categories: only 'trees' blocks.
_is_position_blocked(S, position) ==
    \E terrain_type \in {"trees", "rocks"} :
        position \in S.map_data[terrain_type] /\ terrain_type = "trees"

\* A validation that lets a character onto a cell another one holds.
Mutant_is_valid_move_ignores_occupied(S, char_id, new_position) ==
    IF ~(0 <= new_position[1] /\ new_position[1] < MapWidthOf(S)
         /\ 0 <= new_position[2] /\ new_position[2] < MapHeightOf(S))
    THEN [state |-> add_to_log(S, <<"out_of_bounds", char_id>>), ok |-> FALSE]
    ELSE IF _is_position_blocked(S, new_position)
    THEN [state |-> add_to_log(S, <<"terrain", char_id>>), ok |-> FALSE]
    ELSE [state |-> S, ok |-> TRUE]

\* _is_valid_move: the state with the rejection logged, and whether the
\* destination is valid.
_is_valid_move(S, char_id, new_position) ==
    IF ~(0 <= new_position[1] /\ new_position[1] < MapWidthOf(S)
         /\ 0 <= new_position[2] /\ new_position[2] < MapHeightOf(S))
    THEN [state |-> add_to_log(S, <<"out_of_bounds", char_id>>), ok |-> FALSE]
    ELSE IF \E o \in DOMAIN S.characters :
                o # char_id /\ S.characters[o].position = new_position
    THEN [state |-> add_to_log(S, <<"occupied", char_id>>), ok |-> FALSE]
    ELSE IF _is_position_blocked(S, new_position)
    THEN [state |-> add_to_log(S, <<"terrain", char_id>>), ok |-> FALSE]
    ELSE [state |-> S, ok |-> TRUE]

\* A move that is refused when it would use up the budget exactly.
Mutant_handle_movement_strict_budget(S, character_id, new_position) ==
    IF ~HasCharacter(S, character_id) THEN Result(S, "false")
    ELSE
    LET character == S.characters[character_id]
        distance_feet == ManhattanDistance(new_position, character.position) * 5
        speed == _get_character_speed(character)
        used_movement == S.movement_used[character_id]
        remaining_movement == speed - used_movement
        valid == _is_valid_move(S, character_id, new_position)
    IN IF distance_feet >= remaining_movement
       THEN Result(add_to_log(S, <<"not_enough_movement", character_id>>), "false")
       ELSE IF ~valid.ok THEN Result(valid.state, "false")
       ELSE Result(add_to_log(
                     [S EXCEPT !.characters[character_id].position = new_position,
                               !.movement_used[character_id] =
                                    used_movement + distance_feet],
                     <<"moves", character_id>>), "true")

\* A move that charges the budget before the destination is validated.
Mutant_handle_movement_charges_first(S, character_id, new_position) ==
    IF ~HasCharacter(S, character_id) THEN Result(S, "false")
    ELSE
    LET character == S.characters[character_id]
        distance_feet == ManhattanDistance(new_position, character.position) * 5
        speed == _get_character_speed(character)
        used_movement == S.movement_used[character_id]
        remaining_movement == speed - used_movement
        charged == [S EXCEPT !.movement_used[character_id] =
                                  used_movement + distance_feet]
        valid == _is_valid_move(charged, character_id, new_position)
    IN IF distance_feet > remaining_movement
       THEN Result(add_to_log(S, <<"not_enough_movement", character_id>>), "false")
       ELSE IF ~valid.ok THEN Result(valid.state, "false")
       ELSE Result(add_to_log(
                     [charged EXCEPT !.characters[character_id].position = new_position],
                     <<"moves", character_id>>), "true")

_handle_movement(S, character_id, new_position) ==
    IF ~HasCharacter(S, character_id) THEN Result(S, "false")
    ELSE
    LET character == S.characters[character_id]
        distance_feet == ManhattanDistance(new_position, character.position) * 5
        speed == _get_character_speed(character)
        used_movement == S.movement_used[character_id]
        remaining_movement == speed - used_movement
        valid == _is_valid_move(S, character_id, new_position)
    IN IF distance_feet > remaining_movement
       THEN Result(add_to_log(S, <<"not_enough_movement", character_id>>), "false")
       ELSE IF ~valid.ok THEN Result(valid.state, "false")
       ELSE Result(add_to_log(
                     [S EXCEPT !.characters[character_id].position = new_position,
                               !.movement_used[character_id] =
                                    used_movement + distance_feet],
                     <<"moves", character_id>>), "true")

\* A dash that takes a whole speed off the used movement, without the floor
\* at 0.
Mutant_handle_dash_no_floor(S, character_id) ==
    IF ~HasCharacter(S, character_id) THEN Result(S, "false")
    ELSE
    LET character == S.characters[character_id]
        speed == _get_character_speed(character)
        used_before_dash == S.movement_used[character_id]
    IN IF character.dashed_this_turn
       THEN Result(add_to_log(S, <<"already_dashed", character_id>>), "false")
       ELSE Result(add_to_log(
                     [S EXCEPT !.characters[character_id].dashed_this_turn = TRUE,
                               !.movement_used[character_id] =
                                    used_before_dash - speed],
                     <<"dashes", character_id>>), "true")

\* A dash that leaves no mark on the character.
Mutant_handle_dash_unmarked(S, character_id) ==
    IF ~HasCharacter(S, character_id) THEN Result(S, "false")
    ELSE
    LET character == S.characters[character_id]
        speed == _get_character_speed(character)
        used_before_dash == S.movement_used[character_id]
    IN IF character.dashed_this_turn
       THEN Result(add_to_log(S, <<"already_dashed", character_id>>), "false")
       ELSE Result(add_to_log(
                     [S EXCEPT !.movement_used[character_id] =
                                    Max(0, used_before_dash - speed)],
                     <<"dashes", character_id>>), "true")

_handle_dash(S, character_id) ==
    IF ~HasCharacter(S, character_id) THEN Result(S, "false")
    ELSE
    LET character == S.characters[character_id]
        speed == _get_character_speed(character)
        used_before_dash == S.movement_used[character_id]
    IN IF character.dashed_this_turn
       THEN Result(add_to_log(S, <<"already_dashed", character_id>>), "false")
       ELSE Result(add_to_log(
                     [S EXCEPT !.characters[character_id].dashed_this_turn = TRUE,
                               !.movement_used[character_id] =
                                    Max(0, used_before_dash - speed)],
                     <<"dashes", character_id>>), "true")

reset_turn_movement(S, character_id) ==
    LET S1 == [S EXCEPT !.movement_used[character_id] = 0]
    IN IF HasCharacter(S1, character_id)
       THEN [S1 EXCEPT !.characters[character_id].dashed_this_turn = FALSE]
       ELSE S1

MovementModule_can_handle(a) == a.type \in {"move", "dash"}

MovementModule_process_action(S, a) ==
    CASE a.type = "move" -> _handle_movement(S, CharacterIdOf(a), PositionOf(a))
      [] a.type = "dash" -> _handle_dash(S, CharacterIdOf(a))
      [] OTHER -> Result(S, "false")

(***************************************************************************)
(* CombatModule (modules/combat.py).                                       *)
(***************************************************************************)
\* Damage applied without the floor at 0.
Mutant_apply_damage_unclamped(S, char_id, damage) ==
    IF ~HasCharacter(S, char_id) THEN S
    ELSE LET new_hp == S.characters[char_id].hp - damage
             S1 == add_to_log([S EXCEPT !.characters[char_id].hp = new_hp],
                              <<"damage", char_id>>)
         IN IF new_hp <= 0 THEN add_to_log(S1, <<"defeated", char_id>>) ELSE S1

\* CombatModule._apply_damage; GameStateManager.apply_damage has the same body.
_apply_damage(S, char_id, damage) ==
    IF ~HasCharacter(S, char_id) THEN S
    ELSE LET new_hp == Max(0, S.characters[char_id].hp - damage)
             S1 == add_to_log([S EXCEPT !.characters[char_id].hp = new_hp],
                              <<"damage", char_id>>)
         IN IF new_hp <= 0 THEN add_to_log(S1, <<"defeated", char_id>>) ELSE S1

\* getattr(attacker, 'attack_bonus', 3): every constructor path sets the attribute.
AttackModifierOf(attacker) == attacker.attack_bonus

\* An attack resolution that reports a miss as a failure.
Mutant_ResolveAttack_miss_fails(S, attacker_id, target_id, attack_modifier, dice) ==
    IF ~HasCharacter(S, attacker_id) \/ ~HasCharacter(S, target_id)
    THEN Result(S, "false")
    ELSE
    LET attacker == S.characters[attacker_id]
        target == S.characters[target_id]
        distance == ManhattanDistance(attacker.position, target.position)
        total_attack == dice.d20 + attack_modifier
        S1 == add_to_log(S, <<"attack_roll", attacker_id>>)
    IN IF distance > MeleeRange
       THEN Result(add_to_log(S, <<"too_far", attacker_id>>), "false")
       ELSE IF total_attack >= target.ac
       THEN Result(_apply_damage(S1, target_id, dice.d8 + DamageBonus), "true")
       ELSE Result(add_to_log(S1, <<"miss", attacker_id>>), "false")

\* The attack resolution shared by CombatModule._execute_attack and the older
\* GameEngine.execute_attack, which differ only in the attack modifier.
ResolveAttack(S, attacker_id, target_id, attack_modifier, dice) ==
    IF ~HasCharacter(S, attacker_id) \/ ~HasCharacter(S, target_id)
    THEN Result(S, "false")
    ELSE
    LET attacker == S.characters[attacker_id]
        target == S.characters[target_id]
        distance == ManhattanDistance(attacker.position, target.position)
        total_attack == dice.d20 + attack_modifier
        S1 == add_to_log(S, <<"attack_roll", attacker_id>>)
    IN IF distance > MeleeRange
       THEN Result(add_to_log(S, <<"too_far", attacker_id>>), "false")
       ELSE IF total_attack >= target.ac
       THEN Result(_apply_damage(S1, target_id, dice.d8 + DamageBonus), "true")
       ELSE Result(add_to_log(S1, <<"miss", attacker_id>>), "true")

_execute_attack(S, attacker_id, target_id, dice) ==
    IF ~HasCharacter(S, attacker_id) THEN Result(S, "false")
    ELSE ResolveAttack(S, attacker_id, target_id,
                       AttackModifierOf(S.characters[attacker_id]), dice)

_handle_attack(S, a, dice) ==
    IF a.target_id = NoId THEN Result(S, "false")
    ELSE _execute_attack(S, AttackerIdOf(a), a.target_id, dice)

\* A sort that puts a later id in front of the earlier ids of equal initiative.
RECURSIVE Mutant_InsertByInitiative_unstable(_, _, _)
Mutant_InsertByInitiative_unstable(sorted, x, key) ==
    IF sorted = <<>> THEN <<x>>
    ELSE IF key[Head(sorted)] <= key[x] THEN <<x>> \o sorted
    ELSE <<Head(sorted)>> \o Mutant_InsertByInitiative_unstable(Tail(sorted), x, key)

\* sorted(ids, key = initiative, reverse = True): a stable sort, so ids of equal
\* initiative keep the order they have in ids.  Insertion sort from the left.
RECURSIVE InsertByInitiative(_, _, _)
InsertByInitiative(sorted, x, key) ==
    IF sorted = <<>> THEN <<x>>
    ELSE IF key[Head(sorted)] < key[x] THEN <<x>> \o sorted
    ELSE <<Head(sorted)>> \o InsertByInitiative(Tail(sorted), x, key)

RECURSIVE SortByInitiative(_, _)
SortByInitiative(ids, key) ==
    IF ids = <<>> THEN <<>>
    ELSE InsertByInitiative(SortByInitiative(SubSeq(ids, 1, Len(ids) - 1), key),
                            ids[Len(ids)], key)

\* The initiative loop: each character, in dict order, gets its roll logged.
RECURSIVE RollInitiative(_, _, _)
RollInitiative(S, ids, rolls) ==
    IF ids = <<>> THEN S
    ELSE RollInitiative(
           add_to_log([S EXCEPT !.characters[Head(ids)].initiative = rolls[Head(ids)]],
                      <<"initiative", Head(ids)>>),
           Tail(ids), rolls)

_start_combat(S, dice) ==
    LET S1 == add_to_log([S EXCEPT !.combat_active = TRUE], <<"combat_started", "">>)
        S2 == RollInitiative(S1, S1.roster, dice.initiative)
        order == SortByInitiative(S2.roster,
                                  [i \in DOMAIN S2.characters |-> S2.characters[i].initiative])
    IN Result(add_to_log([S2 EXCEPT !.turn_order = order, !.current_turn_index = 0],
                         <<"turn_order", "">>), "true")

\* An advance that wraps one call too late.
Mutant_advance_turn_wraps_late(S) ==
    LET next == S.current_turn_index + 1
    IN IF next > Len(S.turn_order)
       THEN add_to_log([S EXCEPT !.current_turn_index = 0], <<"new_round", "">>)
       ELSE [S EXCEPT !.current_turn_index = next]

\* An advance that wraps without the new-round line.
Mutant_advance_turn_silent(S) ==
    LET next == S.current_turn_index + 1
    IN IF next >= Len(S.turn_order)
       THEN [S EXCEPT !.current_turn_index = 0]
       ELSE [S EXCEPT !.current_turn_index = next]

\* An advance that passes over defeated characters.
RECURSIVE NextLiving(_, _, _)
NextLiving(S, k, tries) ==
    IF tries = 0 \/ ~HasCharacter(S, S.turn_order[k + 1])
       \/ S.characters[S.turn_order[k + 1]].hp > 0
    THEN k
    ELSE NextLiving(S, (k + 1) % Len(S.turn_order), tries - 1)

Mutant_advance_turn_skips_defeated(S) ==
    LET next == S.current_turn_index + 1
        S1 == IF next >= Len(S.turn_order)
              THEN add_to_log([S EXCEPT !.current_turn_index = 0], <<"new_round", "">>)
              ELSE [S EXCEPT !.current_turn_index = next]
    IN IF S.turn_order = <<>> THEN S1
       ELSE [S1 EXCEPT !.current_turn_index = NextLiving(S1, @, Len(S.turn_order))]

\* CombatModule.advance_turn
advance_turn(S) ==
    LET next == S.current_turn_index + 1
    IN IF next >= Len(S.turn_order)
       THEN add_to_log([S EXCEPT !.current_turn_index = 0], <<"new_round", "">>)
       ELSE [S EXCEPT !.current_turn_index = next]

\* The id of the character whose turn it is, NoId for None.  turn_order is
\* 0-indexed in the program, 1-indexed here.
get_current_character(S) ==
    IF S.turn_order = <<>> THEN NoId
    ELSE LET character_id == S.turn_order[S.current_turn_index + 1]
         IN IF HasCharacter(S, character_id) THEN character_id ELSE NoId

\* A termination test that counts a character at HP 0 as standing.
Mutant_is_combat_over_counts_fallen(S) ==
    LET monsters == {i \in DOMAIN S.characters :
                        S.characters[i].type = "monster" /\ S.characters[i].hp >= 0}
        players == {i \in DOMAIN S.characters :
                        S.characters[i].type = "player" /\ S.characters[i].hp >= 0}
    IN Cardinality(monsters) = 0 \/ Cardinality(players) = 0

\* CombatModule.is_combat_over, GameEngine.is_combat_over
is_combat_over(S) ==
    LET monsters == {i \in DOMAIN S.characters :
                        S.characters[i].type = "monster" /\ S.characters[i].hp > 0}
        players == {i \in DOMAIN S.characters :
                        S.characters[i].type = "player" /\ S.characters[i].hp > 0}
    IN Cardinality(monsters) = 0 \/ Cardinality(players) = 0

CombatModule_can_handle(a) == a.type \in {"attack", "start_combat"}

CombatModule_process_action(S, a, dice) ==
    CASE a.type = "attack" -> _handle_attack(S, a, dice)
      [] a.type = "start_combat" -> _start_combat(S, dice)
      [] OTHER -> Result(S, "false")

(***************************************************************************)
(* InventoryModule (modules/inventory.py).                                 *)
(***************************************************************************)
\* str.lower() on the item names the model uses.
Lower(name) ==
    CASE name \in {"Longsword", "longsword"} -> "longsword"
      [] name \in {"ChainMail", "chainmail"} -> "chainmail"
      [] name \in {"Shield", "shield"} -> "shield"
      [] name \in {"HealingPotion", "healingpotion"} -> "healingpotion"
      [] name \in {"Rations", "rations"} -> "rations"
      [] OTHER -> name

\* _find_item_in_inventory: the first item of the list whose lower-cased name
\* is the lower-cased item_name, NoItem for None.
RECURSIVE FindInList(_, _)
FindInList(inventory, item_name) ==
    IF inventory = <<>> THEN NoItem
    ELSE IF Lower(Head(inventory)) = Lower(item_name) THEN Head(inventory)
    ELSE FindInList(Tail(inventory), item_name)

\* The lookup raises AttributeError when the character has no inventory
\* attribute, and when item_name is None while the list has an item to compare.
FindRaises(character, item_name) ==
    \/ ~character.has_inventory
    \/ (item_name = NoItem /\ character.inventory # <<>>)

_find_item_in_inventory(character, item_name) ==
    FindInList(character.inventory, item_name)

_apply_item_bonuses(character, item_name, equip) ==
    LET item == ItemCatalog[item_name]
        modifier == IF equip THEN 1 ELSE -1
        c1 == IF item.type = "weapon" /\ item.has_attack_bonus
              THEN [character EXCEPT
                      !.has_equipment_attack_bonus = TRUE,
                      !.equipment_attack_bonus = @ + item.attack_bonus * modifier]
              ELSE character
    IN IF item.type \in {"armor", "shield"} /\ item.has_ac_bonus
       THEN LET bonus == c1.equipment_ac_bonus + item.ac_bonus * modifier
                base_ac == 10 + (IF item.type # "armor"
                                 THEN get_ability_modifier(c1, "dexterity") ELSE 0)
            IN [c1 EXCEPT !.has_equipment_ac_bonus = TRUE,
                          !.equipment_ac_bonus = bonus,
                          !.ac = base_ac + bonus]
       ELSE c1

\* The slots of character.equipped in dict order: the three of the constructor,
\* then any slot an equip has added.
SlotOrder(character) ==
    LET extra == DOMAIN character.equipped \ BaseSlots
        rest == IF "consumable" \in extra THEN
                    (IF "misc" \in extra THEN {<<"consumable", "misc">>, <<"misc", "consumable">>}
                     ELSE {<<"consumable">>})
                ELSE (IF "misc" \in extra THEN {<<"misc">>} ELSE {<<>>})
    IN <<"weapon", "armor", "shield">> \o (CHOOSE r \in rest : TRUE)

RECURSIVE FirstSlotHolding(_, _, _)
FirstSlotHolding(character, slots, item_name) ==
    IF slots = <<>> THEN "<no slot>"
    ELSE IF character.equipped[Head(slots)] # NoItem
            /\ character.equipped[Head(slots)] = item_name
    THEN Head(slots)
    ELSE FirstSlotHolding(character, Tail(slots), item_name)

\* _unequip_item on one character: the character afterwards and whether an
\* item was unequipped (the names are compared exactly, not lower-cased).
UnequipOn(character, item_name) ==
    LET slot == FirstSlotHolding(character, SlotOrder(character), item_name)
    IN IF slot = "<no slot>" THEN [character |-> character, ok |-> FALSE]
       ELSE [character |-> _apply_item_bonuses(
                              [character EXCEPT !.equipped[slot] = NoItem],
                              item_name, FALSE),
             ok |-> TRUE]

_unequip_item(S, char_id, item_name) ==
    LET r == UnequipOn(S.characters[char_id], item_name)
    IN IF r.ok
       THEN Result(add_to_log(SetCharacter(S, char_id, r.character),
                              <<"unequips", char_id>>), "true")
       ELSE Result(S, "false")

\* An equip that leaves the bonuses of the slot's prior occupant in place.
Mutant_equip_item_keeps_prior(S, char_id, item_name) ==
    LET character == S.characters[char_id]
        item == _find_item_in_inventory(character, item_name)
    IN IF item = NoItem
       THEN Result(add_to_log(S, <<"does_not_have", char_id>>), "false")
       ELSE
       LET slot == ItemCatalog[item].type
           c2 == [character EXCEPT !.equipped =
                     [k \in DOMAIN @ \cup {slot} |-> IF k = slot THEN item ELSE @[k]]]
           c3 == _apply_item_bonuses(c2, item, TRUE)
       IN Result(add_to_log(SetCharacter(S, char_id, c3), <<"equips", char_id>>),
                 "true")

_equip_item(S, char_id, item_name) ==
    LET character == S.characters[char_id]
        item == _find_item_in_inventory(character, item_name)
    IN IF item = NoItem
       THEN Result(add_to_log(S, <<"does_not_have", char_id>>), "false")
       ELSE
       LET slot == ItemCatalog[item].type
           occupied == slot \in DOMAIN character.equipped
                          /\ character.equipped[slot] # NoItem
           S1 == IF occupied
                 THEN _unequip_item(S, char_id, character.equipped[slot]).state
                 ELSE S
           c1 == S1.characters[char_id]
           c2 == [c1 EXCEPT !.equipped =
                     [k \in DOMAIN @ \cup {slot} |-> IF k = slot THEN item ELSE @[k]]]
           c3 == _apply_item_bonuses(c2, item, TRUE)
       IN Result(add_to_log(SetCharacter(S1, char_id, c3), <<"equips", char_id>>),
                 "true")

RemoveFirst(seq, x) ==
    LET i == CHOOSE k \in 1..Len(seq) : seq[k] = x /\ \A j \in 1..(k - 1) : seq[j] # x
    IN SubSeq(seq, 1, i - 1) \o SubSeq(seq, i + 1, Len(seq))

_use_item(S, char_id, item_name, dice) ==
    LET character == S.characters[char_id]
        item == _find_item_in_inventory(character, item_name)
    IN IF item = NoItem THEN Result(S, "false")
       ELSE IF ItemCatalog[item].type # "consumable" THEN Result(S, "false")
       ELSE
       LET healed == IF ItemCatalog[item].has_healing
                     THEN [character EXCEPT !.hp = Min(character.max_hp,
                                                       character.hp + dice.heal)]
                     ELSE character
           S1 == IF ItemCatalog[item].has_healing
                 THEN add_to_log(SetCharacter(S, char_id, healed), <<"uses", char_id>>)
                 ELSE S
           left == healed.quantity[item] - 1
           c2 == [healed EXCEPT !.quantity[item] = left,
                                !.inventory = IF left <= 0 THEN RemoveFirst(@, item) ELSE @]
       IN Result(SetCharacter(S1, char_id, c2), "true")

_drop_item(S, char_id, item_name) ==
    LET character == S.characters[char_id]
        item == _find_item_in_inventory(character, item_name)
    IN IF item = NoItem THEN Result(S, "false")
       ELSE Result(add_to_log(
                     [S EXCEPT !.characters[char_id].inventory = RemoveFirst(@, item)],
                     <<"drops", char_id>>), "true")

\* _give_starting_equipment on one character (its log lines are added by
\* _initialize_character_inventories below).
RECURSIVE EquipAll(_, _, _)
EquipAll(S, char_id, names) ==
    IF names = <<>> THEN S
    ELSE EquipAll(_equip_item(S, char_id, Head(names)).state, char_id, Tail(names))

_give_starting_equipment(S, char_id) ==
    EquipAll([S EXCEPT !.characters[char_id].inventory = @ \o StartingItems],
             char_id, <<"Longsword", "ChainMail", "Shield">>)

RECURSIVE InitInventories(_, _)
InitInventories(S, ids) ==
    IF ids = <<>> THEN S
    ELSE LET i == Head(ids)
             S1 == IF S.characters[i].has_inventory THEN S
                   ELSE LET S0 == [S EXCEPT !.characters[i].has_inventory = TRUE]
                        IN IF S0.characters[i].type = "player"
                           THEN _give_starting_equipment(S0, i)
                           ELSE S0
         IN InitInventories(S1, Tail(ids))

_initialize_character_inventories(S) == InitInventories(S, S.roster)

InventoryModule_can_handle(a) ==
    a.type \in {"equip", "unequip", "use_item", "drop_item"}

InventoryModule_process_action(S, a, dice) ==
    LET character_id == CharacterIdOf(a) IN
    IF ~HasCharacter(S, character_id) THEN Result(S, "false")
    ELSE IF a.type = "unequip"
    THEN (IF ~S.characters[character_id].has_inventory
          THEN Result(S, "raise")
          ELSE _unequip_item(S, character_id, a.item_name))
    ELSE IF FindRaises(S.characters[character_id], a.item_name)
    THEN Result(S, "raise")
    ELSE CASE a.type = "equip" -> _equip_item(S, character_id, a.item_name)
           [] a.type = "use_item" -> _use_item(S, character_id, a.item_name, dice)
           [] a.type = "drop_item" -> _drop_item(S, character_id, a.item_name)
           [] OTHER -> Result(S, "false")

(***************************************************************************)
(* SpellsModule (modules/spells.py).                                       *)
(***************************************************************************)
_give_starting_spells(character) ==
    [character EXCEPT !.spell_slots[1] = 2,
                      !.spells_known = {"cure_wounds", "magic_missile"}]

RECURSIVE InitSpells(_, _)
InitSpells(S, ids) ==
    IF ids = <<>> THEN S
    ELSE LET i == Head(ids)
             c == S.characters[i]
             c1 == [c EXCEPT !.has_spells = TRUE, !.spells_known = {},
                             !.spell_slots = NoSlots, !.spell_slots_used = NoSlots]
             c2 == IF c1.type = "player" /\ c1.class_name \in CasterClasses
                   THEN _give_starting_spells(c1) ELSE c1
         IN InitSpells(IF c.has_spells THEN S ELSE SetCharacter(S, i, c2), Tail(ids))

_initialize_character_spells(S) == InitSpells(S, S.roster)

\* The fireball loop over gsm.characters.values(), in dict order.
RECURSIVE FireballLoop(_, _, _)
FireballLoop(S, ids, damage) ==
    IF ids = <<>> THEN S
    ELSE LET i == Head(ids)
             c == S.characters[i]
             new_hp == Max(0, c.hp - damage)
             S1 == [S EXCEPT !.characters[i].hp = new_hp]
             S2 == IF new_hp <= 0
                   THEN add_to_log(S1, <<"defeated_by_fireball", i>>) ELSE S1
         IN IF c.type = "monster" /\ c.hp > 0
            THEN FireballLoop(S2, Tail(ids), damage)
            ELSE FireballLoop(S, Tail(ids), damage)

FireballTargets(S) ==
    {i \in DOMAIN S.characters :
        S.characters[i].type = "monster" /\ S.characters[i].hp > 0}

\* target_id is NoId when the effect has no target (None).
_execute_spell_effect(S, spell_name, caster_id, target_id, dice) ==
    CASE spell_name = "cure_wounds" ->
           IF target_id = NoId THEN Result(S, "false")
           ELSE LET healing == dice.spell + 3
                    target == S.characters[target_id]
                IN Result(add_to_log(
                            [S EXCEPT !.characters[target_id].hp =
                                         Min(target.max_hp, target.hp + healing)],
                            <<"heals", target_id>>), "true")
      [] spell_name = "magic_missile" ->
           IF target_id = NoId THEN Result(S, "false")
           ELSE LET total_damage == dice.spell + 3
                    new_hp == Max(0, S.characters[target_id].hp - total_damage)
                    S1 == add_to_log([S EXCEPT !.characters[target_id].hp = new_hp],
                                     <<"magic_missile", target_id>>)
                IN Result(IF new_hp <= 0
                          THEN add_to_log(S1, <<"defeated", target_id>>) ELSE S1,
                          "true")
      [] spell_name = "shield" ->
           Result(add_to_log(
                    [S EXCEPT !.characters[caster_id].temp_ac_bonus = @ + 5,
                              !.characters[caster_id].ac = @ + 5],
                    <<"shield", caster_id>>), "true")
      [] spell_name = "fireball" ->
           LET S1 == FireballLoop(S, S.roster, dice.spell)
           IN Result(IF FireballTargets(S) # {}
                     THEN add_to_log(S1, <<"fireball", caster_id>>) ELSE S1,
                     "true")
      [] OTHER -> Result(S, "false")

\* The dice a spell rolls before its fixed modifier: 1d8, 3 times 1d4, 8d6.
SpellDice(spell_name) ==
    CASE spell_name = "cure_wounds" -> RollDice(<<1, 8, 0>>)
      [] spell_name = "magic_missile" -> RollDice(<<3, 4, 0>>)
      [] spell_name = "fireball" -> RollDice(<<8, 6, 0>>)
      [] OTHER -> {0}

\* A cast whose slot check lets one cast too many through.
Mutant_cast_spell_one_past_total(S, caster_id, spell_name, target_id, dice) ==
    LET caster == S.characters[caster_id] IN
    IF ~caster.has_spells \/ spell_name \notin caster.spells_known
    THEN Result(add_to_log(S, <<"does_not_know", caster_id>>), "false")
    ELSE IF spell_name \notin SpellNames THEN Result(S, "false")
    ELSE
    LET level == SpellDatabase[spell_name].level IN
    IF caster.spell_slots_used[level] > caster.spell_slots[level]
    THEN Result(add_to_log(S, <<"no_slots", caster_id>>), "false")
    ELSE
    LET S1 == [S EXCEPT !.characters[caster_id].spell_slots_used[level] = @ + 1]
        target == IF target_id # NoId
                  THEN (IF HasCharacter(S1, target_id) THEN target_id ELSE NoId)
                  ELSE caster_id
        r == _execute_spell_effect(S1, spell_name, caster_id, target, dice)
    IN IF r.ret = "true"
       THEN Result(add_to_log(r.state, <<"casts", caster_id>>), "true")
       ELSE r

\* A cast that does not look at the slots left.
Mutant_cast_spell_ignores_slots(S, caster_id, spell_name, target_id, dice) ==
    LET caster == S.characters[caster_id] IN
    IF ~caster.has_spells \/ spell_name \notin caster.spells_known
    THEN Result(add_to_log(S, <<"does_not_know", caster_id>>), "false")
    ELSE IF spell_name \notin SpellNames THEN Result(S, "false")
    ELSE
    LET level == SpellDatabase[spell_name].level
        S1 == [S EXCEPT !.characters[caster_id].spell_slots_used[level] = @ + 1]
        target == IF target_id # NoId
                  THEN (IF HasCharacter(S1, target_id) THEN target_id ELSE NoId)
                  ELSE caster_id
        r == _execute_spell_effect(S1, spell_name, caster_id, target, dice)
    IN IF r.ret = "true"
       THEN Result(add_to_log(r.state, <<"casts", caster_id>>), "true")
       ELSE r

\* A cast that uses up the slot only when the effect succeeded.
Mutant_cast_spell_slot_on_success(S, caster_id, spell_name, target_id, dice) ==
    LET caster == S.characters[caster_id] IN
    IF ~caster.has_spells \/ spell_name \notin caster.spells_known
    THEN Result(add_to_log(S, <<"does_not_know", caster_id>>), "false")
    ELSE IF spell_name \notin SpellNames THEN Result(S, "false")
    ELSE
    LET level == SpellDatabase[spell_name].level IN
    IF caster.spell_slots_used[level] >= caster.spell_slots[level]
    THEN Result(add_to_log(S, <<"no_slots", caster_id>>), "false")
    ELSE
    LET target == IF target_id # NoId
                  THEN (IF HasCharacter(S, target_id) THEN target_id ELSE NoId)
                  ELSE caster_id
        r == _execute_spell_effect(S, spell_name, caster_id, target, dice)
    IN IF r.ret = "true"
       THEN Result(add_to_log(
                     [r.state EXCEPT !.characters[caster_id].spell_slots_used[level] = @ + 1],
                     <<"casts", caster_id>>), "true")
       ELSE r

_cast_spell(S, caster_id, spell_name, target_id, dice) ==
    LET caster == S.characters[caster_id] IN
    IF ~caster.has_spells \/ spell_name \notin caster.spells_known
    THEN Result(add_to_log(S, <<"does_not_know", caster_id>>), "false")
    ELSE IF spell_name \notin SpellNames THEN Result(S, "false")
    ELSE
    LET level == SpellDatabase[spell_name].level IN
    IF caster.spell_slots_used[level] >= caster.spell_slots[level]
    THEN Result(add_to_log(S, <<"no_slots", caster_id>>), "false")
    ELSE
    LET S1 == [S EXCEPT !.characters[caster_id].spell_slots_used[level] = @ + 1]
        target == IF target_id # NoId
                  THEN (IF HasCharacter(S1, target_id) THEN target_id ELSE NoId)
                  ELSE caster_id
        r == _execute_spell_effect(S1, spell_name, caster_id, target, dice)
    IN IF r.ret = "true"
       THEN Result(add_to_log(r.state, <<"casts", caster_id>>), "true")
       ELSE r

SpellsModule_can_handle(a) == a.type \in {"cast_spell", "prepare_spell"}

\* prepare_spell calls self._prepare_spell, which the class does not define:
\* the call raises AttributeError.
SpellsModule_process_action(S, a, dice) ==
    LET character_id == CharacterIdOf(a) IN
    IF ~HasCharacter(S, character_id) THEN Result(S, "false")
    ELSE CASE a.type = "cast_spell" ->
                _cast_spell(S, character_id, a.spell_name, a.target_id, dice)
           [] a.type = "prepare_spell" -> Result(S, "raise")
           [] OTHER -> Result(S, "false")

(***************************************************************************)
(* AIDMChatModule (modules/ai_dm_chat.py): the action types it claims.     *)
(***************************************************************************)
(***************************************************************************)
(* AIDMChatModule (modules/ai_dm_chat.py) and its narrative agent          *)
(* (modules/Gemini_DM.py).  A log line of the module is <<"dm", text>>.    *)
(***************************************************************************)
AgentPauses == "The dungeon master pauses, momentarily confused by the cosmos..."
DMPauses == "The DM pauses thoughtfully, considering the situation..."
Narration == "narration"

\* Gemini_DM.initialize_session: start_chat, then the system prompt is sent;
\* either call to the service can raise.
initialize_session(S, dice) ==
    IF dice.dm_session = "no_chat" THEN Result(S, "raise")
    ELSE LET S1 == [S EXCEPT !.dm.chat = TRUE]
         IN IF dice.dm_session = "no_reply" THEN Result(S1, "raise")
            ELSE Result(S1, "true")

\* Gemini_DM.get_npc_actions: the texts of the narrate calls it returns.  A
\* failed send_message is answered with the agent's own neutral narration.
get_npc_actions(S, dice) ==
    LET r == IF ~S.dm.chat THEN initialize_session(S, dice) ELSE Result(S, "true")
    IN IF r.ret = "raise"
       THEN [state |-> r.state, ret |-> "raise", texts |-> <<>>, calls |-> <<>>]
       ELSE [state |-> r.state, ret |-> "true",
             texts |-> CASE dice.dm_reply = "narrates" -> <<Narration>>
                         [] dice.dm_reply = "fails" -> <<AgentPauses>>
                         [] OTHER -> <<>>,
             calls |-> IF dice.dm_reply = "acts" THEN dice.dm_calls ELSE <<>>]

\* if not self.dm_initialized: self.dm.initialize_session(...), outside any try.
EnsureSession(S, dice) ==
    IF S.dm.dm_initialized THEN Result(S, "true")
    ELSE LET r == initialize_session(S, dice)
         IN IF r.ret = "raise" THEN r
            ELSE Result([r.state EXCEPT !.dm.dm_initialized = TRUE], "true")

RECURSIVE LogNarration(_, _)
LogNarration(S, texts) ==
    IF texts = <<>> THEN S
    ELSE LogNarration(add_to_log(S, <<"dm", Head(texts)>>), Tail(texts))

_handle_player_chat(S, dice) ==
    LET e == EnsureSession(S, dice) IN
    IF e.ret = "raise" THEN e
    ELSE LET g == get_npc_actions(e.state, dice)
         IN IF g.ret = "raise"
            THEN Result(add_to_log(g.state, <<"dm", DMPauses>>), "true")
            ELSE Result(LogNarration(g.state, g.texts), "true")

_handle_dm_narration(S, dice) ==
    LET e == EnsureSession(S, dice) IN
    IF e.ret = "raise" THEN e
    ELSE LET g == get_npc_actions(e.state, dice)
         IN IF g.ret = "raise" THEN Result(g.state, "false")
            ELSE Result(LogNarration(g.state, g.texts), "true")

_handle_dm_response(S, dice) ==
    LET e == EnsureSession(S, dice) IN
    IF e.ret = "raise" THEN e
    ELSE LET g == get_npc_actions(e.state, dice)
         IN IF g.ret = "raise" THEN Result(g.state, "false")
            ELSE Result(LogNarration(g.state, g.texts), "true")

AIDMChatModule_can_handle(a) ==
    a.type \in {"chat_with_dm", "dm_narrate", "dm_response"}

AIDMChatModule_process_action(S, a, dice) ==
    CASE a.type = "chat_with_dm" -> _handle_player_chat(S, dice)
      [] a.type = "dm_narrate" -> _handle_dm_narration(S, dice)
      [] a.type = "dm_response" -> _handle_dm_response(S, dice)
      [] OTHER -> Result(S, "false")

\* trigger_dm_narration calls the module's process_action and drops its
\* result; an exception of the handler passes through.
trigger_dm_narration(S, dice) ==
    LET r == AIDMChatModule_process_action(S, [NoAction EXCEPT !.type = "dm_narrate"], dice)
    IN Result(r.state, IF r.ret = "raise" THEN "raise" ELSE "none")

(***************************************************************************)
(* Module router (core/module_manager.py).                                 *)
(*                                                                         *)
(* A registered module is a record: kind names the class; a "stub" is a    *)
(* GameModule subclass that claims the types in claims and whose           *)
(* process_action does nothing but return (or raise) behave.               *)
(***************************************************************************)
RealModule(kind) == [kind |-> kind, claims |-> {}, behave |-> "none"]

\* GameEngine._register_modules (main.py), in registration order.
EngineModules ==
    << RealModule("movement"), RealModule("combat"), RealModule("inventory"),
       RealModule("spells"), RealModule("ai_dm_chat") >>

StubTypes == {"ping", "pong"}
Outcomes == {"true", "false", "raise"}
StubModules == [kind : {"stub"}, claims : SUBSET StubTypes, behave : Outcomes]

can_handle(module, a) ==
    CASE module.kind = "stub" -> a.type \in module.claims
      [] module.kind = "movement" -> MovementModule_can_handle(a)
      [] module.kind = "combat" -> CombatModule_can_handle(a)
      [] module.kind = "inventory" -> InventoryModule_can_handle(a)
      [] module.kind = "spells" -> SpellsModule_can_handle(a)
      [] module.kind = "ai_dm_chat" -> AIDMChatModule_can_handle(a)

module_process_action(module, S, a, dice) ==
    CASE module.kind = "stub" -> Result(S, module.behave)
      [] module.kind = "movement" -> MovementModule_process_action(S, a)
      [] module.kind = "combat" -> CombatModule_process_action(S, a, dice)
      [] module.kind = "inventory" -> InventoryModule_process_action(S, a, dice)
      [] module.kind = "spells" -> SpellsModule_process_action(S, a, dice)
      [] module.kind = "ai_dm_chat" -> AIDMChatModule_process_action(S, a, dice)

\* The loop of ModuleManager.process_action from module i on: the state left,
\* the value returned, and the indices of the modules whose process_action ran.
RECURSIVE RouteFrom(_, _, _, _, _)
RouteFrom(mods, i, S, a, dice) ==
    IF i > Len(mods)
    THEN [state |-> S, ret |-> "false", invoked |-> <<>>]
    ELSE IF ~can_handle(mods[i], a)
    THEN RouteFrom(mods, i + 1, S, a, dice)
    ELSE LET r == module_process_action(mods[i], S, a, dice)
         IN IF r.ret = "true"
            THEN [state |-> r.state, ret |-> "true", invoked |-> <<i>>]
            ELSE LET rest == RouteFrom(mods, i + 1, r.state, a, dice)
                 IN [rest EXCEPT !.invoked = <<i>> \o @]

\* Mutant: the scan stops at the first claiming module that returns false.
RECURSIVE RouteStopOnFalse(_, _, _, _, _)
RouteStopOnFalse(mods, i, S, a, dice) ==
    IF i > Len(mods)
    THEN [state |-> S, ret |-> "false", invoked |-> <<>>]
    ELSE IF ~can_handle(mods[i], a)
    THEN RouteStopOnFalse(mods, i + 1, S, a, dice)
    ELSE LET r == module_process_action(mods[i], S, a, dice)
         IN IF r.ret # "raise"
            THEN [state |-> r.state, ret |-> r.ret, invoked |-> <<i>>]
            ELSE LET rest == RouteStopOnFalse(mods, i + 1, r.state, a, dice)
                 IN [rest EXCEPT !.invoked = <<i>> \o @]

Mutant_process_action_stops_on_false(mods, S, a, dice) ==
    RouteStopOnFalse(mods, 1, S, a, dice)

\* Mutant: no try/except around process_action, the error reaches the caller.
RECURSIVE RouteNoCatch(_, _, _, _, _)
RouteNoCatch(mods, i, S, a, dice) ==
    IF i > Len(mods)
    THEN [state |-> S, ret |-> "false", invoked |-> <<>>]
    ELSE IF ~can_handle(mods[i], a)
    THEN RouteNoCatch(mods, i + 1, S, a, dice)
    ELSE LET r == module_process_action(mods[i], S, a, dice)
         IN IF r.ret # "false"
            THEN [state |-> r.state, ret |-> r.ret, invoked |-> <<i>>]
            ELSE LET rest == RouteNoCatch(mods, i + 1, r.state, a, dice)
                 IN [rest EXCEPT !.invoked = <<i>> \o @]

Mutant_process_action_no_catch(mods, S, a, dice) == RouteNoCatch(mods, 1, S, a, dice)

\* A router that reports success when no module claimed the action.
Mutant_process_action_default_true(mods, S, a, dice) ==
    LET r == RouteFrom(mods, 1, S, a, dice)
    IN IF r.invoked = <<>> THEN [r EXCEPT !.ret = "true"] ELSE r

ModuleManager_process_action(mods, S, a, dice) == RouteFrom(mods, 1, S, a, dice)

(***************************************************************************)
(* The state machine.                                                      *)
(***************************************************************************)
CurrentState ==
    [characters |-> characters, roster |-> roster, combat_active |-> combat_active,
     turn_order |-> turn_order, current_turn_index |-> current_turn_index,
     game_log |-> game_log, map_data |-> map_data, movement_used |-> movement_used,
     dm |-> dm]

SetState(S) ==
    /\ characters' = S.characters
    /\ roster' = S.roster
    /\ combat_active' = S.combat_active
    /\ turn_order' = S.turn_order
    /\ current_turn_index' = S.current_turn_index
    /\ game_log' = S.game_log
    /\ map_data' = S.map_data
    /\ movement_used' = S.movement_used
    /\ dm' = S.dm

StartsIn(S) ==
    /\ characters = S.characters
    /\ roster = S.roster
    /\ combat_active = S.combat_active
    /\ turn_order = S.turn_order
    /\ current_turn_index = S.current_turn_index
    /\ game_log = S.game_log
    /\ map_data = S.map_data
    /\ movement_used = S.movement_used
    /\ dm = S.dm

\* What `last` records of a call; d20 is the to-hit die of an attack,
\* dm_session and dm_reply what the narrative agent did in a call that
\* reaches it, provided the kind of answer the stat provider gave to
\* add_character, returned the log that serialize_state returned.
Call(op, a, ret, invoked, amount) ==
    [op |-> op, action |-> a, ret |-> ret, invoked |-> invoked, amount |-> amount,
     d20 |-> 0, dm_session |-> "ok", dm_reply |-> "acts", dm_calls |-> <<>>,
     provided |-> "none", returned |-> <<>>]

NoCall == Call("none", NoAction, "none", <<>>, 0)

\* ModuleManager.register_module
register_module(module) ==
    /\ Len(modules) < MaxModules
    /\ modules' = Append(modules, module)
    /\ last' = Call("register_module", NoAction, "none", <<>>, 0)
    /\ UNCHANGED <<gsmVars, obs>>

NoObs == [advances |-> 0, dashes |-> [i \in Ids |-> 0],
          feet |-> [i \in Ids |-> 0]]

\* The observer restarts its count of advances when a call rebuilds the turn
\* order; dashes is its new count of accepted dashes, feet its new count of
\* the feet each character has walked since its movement was last reset.
Observe(S, started, advanced, dashes, feet) ==
    obs' = [advances |-> IF started THEN 0
                         ELSE IF advanced THEN obs.advances + 1
                         ELSE obs.advances,
            dashes |-> dashes,
            feet |-> feet]

\* The count of accepted dashes after a routed call.
DashesAfter(a, ret) ==
    IF a.type = "dash" /\ ret = "true" /\ CharacterIdOf(a) \in Ids
    THEN [obs.dashes EXCEPT ![CharacterIdOf(a)] = @ + 1]
    ELSE obs.dashes

\* The count of accepted dashes after a reset of the character's turn movement.
DashesReset(char_id) ==
    IF char_id \in Ids THEN [obs.dashes EXCEPT ![char_id] = 0] ELSE obs.dashes

\* The feet walked after a routed call: an accepted move adds 5 feet for each
\* square between the character's position before and after the call.
FeetAfter(S, a, r) ==
    LET c == CharacterIdOf(a)
    IN IF a.type = "move" /\ r.ret = "true" /\ c \in Ids
          /\ HasCharacter(S, c) /\ HasCharacter(r.state, c)
       THEN [obs.feet EXCEPT ![c] =
                @ + 5 * ManhattanDistance(S.characters[c].position,
                                          r.state.characters[c].position)]
       ELSE obs.feet

\* The feet walked after a reset of the character's turn movement.
FeetReset(char_id) ==
    IF char_id \in Ids THEN [obs.feet EXCEPT ![char_id] = 0] ELSE obs.feet

\* The combat module ran _start_combat during the routed call.
StartedBy(a, r) == a.type = "start_combat" /\ r.ret = "true"

\* The die that sizes the effect of an action: the d8 of an attack, the dice
\* of a spell, the dice of a potion.
AmountRolled(a, dice) ==
    CASE a.type = "attack" -> dice.d8
      [] a.type = "chat_with_dm" /\ dice.dm_calls # <<>> -> dice.d8
      [] a.type = "cast_spell" -> dice.spell
      [] a.type = "use_item" -> dice.heal
      [] OTHER -> 0

\* ModuleManager.process_action / GameEngine.process_player_action (main.py)
process_action(a, dice) ==
    \E r \in {ModuleManager_process_action(modules, CurrentState, a, dice)} :
       /\ SetState(r.state)
       /\ last' = [Call("process_action", a, r.ret, r.invoked, AmountRolled(a, dice))
                     EXCEPT !.d20 = IF a.type = "attack"
                                      \/ (a.type = "chat_with_dm" /\ dice.dm_calls # <<>>)
                                   THEN dice.d20 ELSE 0,
                            !.dm_session = IF AIDMChatModule_can_handle(a)
                                           THEN dice.dm_session ELSE "ok",
                            !.dm_reply = IF AIDMChatModule_can_handle(a)
                                         THEN dice.dm_reply ELSE "acts",
                            !.dm_calls = IF AIDMChatModule_can_handle(a)
                                         THEN dice.dm_calls ELSE <<>>]
       /\ Observe(r.state, StartedBy(a, r), FALSE, DashesAfter(a, r.ret),
                  FeetAfter(CurrentState, a, r))
       /\ UNCHANGED modules

\* GameStateManager.add_character
AddCharacter(char_id, char_type, position, stats) ==
    /\ SetState(add_character(CurrentState, char_id, char_type, position, stats))
    /\ last' = [Call("add_character", [NoAction EXCEPT !.character_id = char_id],
                     "none", <<>>, 0) EXCEPT !.provided = stats.kind]
    /\ UNCHANGED <<modules, obs>>

\* GameEngine.start_combat (GameEngine.py): the same statements as
\* CombatModule._start_combat, without the return value.
\* GameEngine.start_combat (main.py): the combat module's _start_combat, then
\* the narration of the start; ret is "raise" when the narration raised.
GameEngine_start_combat(dice) ==
    /\ LET r == _start_combat(CurrentState, dice)
           n == IF r.ret = "true" THEN trigger_dm_narration(r.state, dice)
                ELSE Result(r.state, "none")
       IN /\ SetState(n.state)
          /\ last' = [Call("start_combat", NoAction,
                           IF n.ret = "raise" THEN "raise" ELSE r.ret, <<>>, 0)
                        EXCEPT !.dm_session = dice.dm_session,
                               !.dm_reply = dice.dm_reply]
    /\ Observe(CurrentState, TRUE, FALSE, obs.dashes, obs.feet)
    /\ UNCHANGED modules

\* CombatModule.advance_turn, GameEngine.advance_turn (GameEngine.py)
AdvanceTurn ==
    /\ SetState(advance_turn(CurrentState))
    /\ last' = Call("advance_turn", NoAction, "none", <<>>, 0)
    /\ Observe(CurrentState, FALSE, TRUE, obs.dashes, obs.feet)
    /\ UNCHANGED modules

\* GameEngine.advance_turn (main.py): the current character's movement is
\* reset, then the combat module advances the turn.
GameEngine_advance_turn ==
    LET current == get_current_character(CurrentState)
        S1 == IF current # NoId THEN reset_turn_movement(CurrentState, current)
              ELSE CurrentState
    IN /\ SetState(advance_turn(S1))
       /\ last' = Call("engine_advance_turn", NoAction, "none", <<>>, 0)
       /\ Observe(CurrentState, FALSE, TRUE, DashesReset(current), FeetReset(current))
       /\ UNCHANGED modules

\* CombatModule.is_combat_over, GameEngine.is_combat_over: a query.
IsCombatOver ==
    /\ last' = Call("is_combat_over", NoAction,
                    IF is_combat_over(CurrentState) THEN "true" ELSE "false", <<>>, 0)
    /\ UNCHANGED <<gsmVars, modules, obs>>

\* GameEngine.execute_attack (GameEngine.py): a fixed attack modifier of 3 and
\* the state store's apply_damage.
GameEngine_execute_attack(attacker_id, target_id, dice) ==
    LET r == ResolveAttack(CurrentState, attacker_id, target_id,
                           DefaultAttackBonus, dice)
    IN /\ SetState(r.state)
       /\ last' = [Call("execute_attack",
                        [NoAction EXCEPT !.type = "attack", !.attacker_id = attacker_id,
                                         !.target_id = target_id],
                        r.ret, <<>>, dice.d8)
                     EXCEPT !.d20 = dice.d20]
       /\ UNCHANGED <<modules, obs>>

\* GameEngine.process_player_action (GameEngine.py), the engine of the
\* console driver: no router, the state store's move_character and the
\* engine's execute_attack.
GameEngine_process_player_action(S, a, dice) ==
    CASE a.type = "move" -> move_character(S, CharacterIdOf(a), PositionOf(a))
      [] a.type = "attack" ->
            IF a.target_id = NoId THEN Result(S, "false")
            ELSE ResolveAttack(S, AttackerIdOf(a), a.target_id, DefaultAttackBonus, dice)
      [] a.type = "wait" -> Result(add_to_log(S, <<"waits", "player">>), "true")
      [] OTHER -> Result(S, "false")

\* GameEngine.process_ai_actions (GameEngine.py): a move_character goes to
\* the state store's move_character, an attack_character to the engine's
\* execute_attack; neither goes through the router.
RECURSIVE process_ai_actions(_, _, _)
process_ai_actions(S, ai_actions, dice) ==
    IF ai_actions = <<>> THEN S
    ELSE LET action == Head(ai_actions)
             S1 == CASE action.function = "move_character" ->
                          move_character(S, action.character_id,
                                         action.new_position).state
                      [] action.function = "attack_character" ->
                          ResolveAttack(S, action.attacker_id, action.target_id,
                                        DefaultAttackBonus, dice).state
                      [] OTHER -> S
         IN process_ai_actions(S1, Tail(ai_actions), dice)

\* The monster turn of the console driver (console_game.py): the agent is
\* asked for its actions and the engine processes them.
GameEngine_process_ai_actions(dice) ==
    LET g == get_npc_actions(CurrentState, dice)
    IN /\ g.ret # "raise"
       /\ SetState(LogNarration(process_ai_actions(g.state, g.calls, dice), g.texts))
       /\ last' = [Call("process_ai_actions", NoAction, "none", <<>>, dice.d8)
                     EXCEPT !.d20 = dice.d20, !.dm_reply = dice.dm_reply,
                            !.dm_calls = g.calls]
       /\ UNCHANGED <<modules, obs>>

\* GameStateManager.apply_damage (GameStateManager.py)
ApplyDamage(char_id, damage) ==
    /\ SetState(_apply_damage(CurrentState, char_id, damage))
    /\ last' = Call("apply_damage", [NoAction EXCEPT !.target_id = char_id],
                    IF HasCharacter(CurrentState, char_id) THEN "true" ELSE "false",
                    <<>>, damage)
    /\ UNCHANGED <<modules, obs>>

\* GameStateManager.move_character (GameStateManager.py)
MoveCharacter(char_id, new_position) ==
    LET r == move_character(CurrentState, char_id, new_position)
    IN /\ SetState(r.state)
       /\ last' = Call("move_character",
                       [NoAction EXCEPT !.character_id = char_id, !.has_position = TRUE,
                                        !.position = new_position],
                       r.ret, <<>>, 0)
       /\ UNCHANGED <<modules, obs>>

\* MovementModule.reset_turn_movement, called by the host
ResetTurnMovement(char_id) ==
    /\ SetState(reset_turn_movement(CurrentState, char_id))
    /\ last' = Call("reset_turn_movement", [NoAction EXCEPT !.character_id = char_id],
                    "none", <<>>, 0)
    /\ obs' = [obs EXCEPT !.dashes = DashesReset(char_id),
                           !.feet = FeetReset(char_id)]
    /\ UNCHANGED modules

(***************************************************************************)
(* SpecRouter: the router alone, with stub modules registered in any       *)
(* order and actions of the types they may claim.                          *)
(***************************************************************************)
StubActions == {[NoAction EXCEPT !.type = t] : t \in StubTypes \cup {"unclaimed", NoType}}

InitRouter ==
    /\ StartsIn(EmptyState)
    /\ modules = <<>>
    /\ last = NoCall
    /\ obs = NoObs

NextRouter ==
    \/ \E module \in StubModules : register_module(module)
    \/ \E a \in StubActions : process_action(a, NoDiceRolls)

SpecRouter == InitRouter /\ [][NextRouter]_vars

(***************************************************************************)
(* Inputs shared by the game specifications.                               *)
(***************************************************************************)
\* The default map written by initialize_game (main.py).
DefaultMap == [loaded |-> TRUE, width |-> 6, height |-> 6,
               trees |-> {<<2, 2>>, <<3, 1>>}, rocks |-> {<<1, 4>>}]

\* The ids of starting_positions in the default map.
MapIds == {"player", "goblin_1", "orc_1"}

\* load_map: the id "player" is a player, every other id a monster.
TypeOf(char_id) == IF char_id = "player" THEN "player" ELSE "monster"

\* starting_positions of the default map.
StartPos(char_id) ==
    CASE char_id = "player" -> <<1, 1>>
      [] char_id = "goblin_1" -> <<4, 4>>
      [] OTHER -> <<5, 2>>

\* The d20 faces sampled for an initiative roll: lowest, middle and highest.
InitiativeFaces == {1, D20 \div 2, D20}

\* One initiative roll per character of the roster.
InitiativeDice ==
    {[NoDiceRolls EXCEPT !.initiative = f] :
        f \in {g \in [Ids -> InitiativeFaces] :
                  \A i \in Ids \ DOMAIN characters : g[i] = 1}}

(***************************************************************************)
(* SpecTurn: the turn controller.  The engine is constructed on an empty   *)
(* state store (main.py), characters are added afterwards, each id once,   *)
(* before and during combat, with the provider unavailable.                *)
(***************************************************************************)
TurnActions ==
    {[NoAction EXCEPT !.type = t] : t \in {"start_combat", "wait", NoType}}

DiceForTurn(a) == IF a.type = "start_combat" THEN InitiativeDice ELSE {NoDiceRolls}

\* No new call is started once the log holds MaxLog lines.
LogRoom == Len(game_log) < MaxLog

\* The narrative session is open already (the host has greeted the DM).
InitTurn ==
    /\ StartsIn([EmptyState EXCEPT !.map_data = DefaultMap, !.dm = OpenSession])
    /\ modules = EngineModules
    /\ last = NoCall
    /\ obs = NoObs

NextTurn ==
    \/ \E i \in MapIds \ DOMAIN characters :
          AddCharacter(i, TypeOf(i), StartPos(i), NoStats)
    \/ LogRoom /\ \E a \in TurnActions : \E dice \in DiceForTurn(a) : process_action(a, dice)
    \/ LogRoom /\ \E dice \in InitiativeDice : GameEngine_start_combat(dice)
    \/ LogRoom /\ AdvanceTurn
    \/ LogRoom /\ GameEngine_advance_turn

SpecTurn == InitTurn /\ [][NextTurn]_vars

(***************************************************************************)
(* SpecCombat: attacks, direct damage and the termination test on rosters  *)
(* built with add_character before the engine and its modules are          *)
(* constructed, so that the modules attach inventories and spell lists.    *)
(* Positions do not change.                                                *)
(***************************************************************************)
WizardBlock == CHOOSE b \in PlayerBlocks : b.class_name = "wizard"
GoblinBlock == CHOOSE b \in MonsterBlocks : TRUE

\* One add_character call: id, category, position, the provider's answer.
Adds(char_id, char_type, position, stats) ==
    [id |-> char_id, type |-> char_type, position |-> position, stats |-> stats]

RECURSIVE AddAll(_, _)
AddAll(S, adds) ==
    IF adds = <<>> THEN S
    ELSE AddAll(add_character(S, Head(adds).id, Head(adds).type,
                              Head(adds).position, Head(adds).stats), Tail(adds))

\* GameEngine.__init__ (main.py): InventoryModule, then SpellsModule, are
\* constructed on the characters present.
EngineOn(S) == _initialize_character_spells(_initialize_character_inventories(S))

\* The host teaches the player fireball and grants one level-3 slot
\* (spells_known and spell_slots are plain attributes of the character).
TeachFireball(S) ==
    [S EXCEPT !.characters["player"].spells_known = @ \cup {"fireball"},
              !.characters["player"].spell_slots[3] = 1]

Wizard == Adds("player", "player", <<1, 1>>, WizardBlock)
Goblin == Adds("goblin_1", "monster", <<1, 2>>, GoblinBlock)
Orc == Adds("orc_1", "monster", <<4, 4>>, NoStats)
Villager == Adds("villager", "npc", <<2, 2>>, NoStats)

OnDefaultMap == [EmptyState EXCEPT !.map_data = DefaultMap]

Scenarios ==
    { EngineOn(AddAll(OnDefaultMap, <<Wizard, Goblin, Orc>>)),
      TeachFireball(EngineOn(AddAll(OnDefaultMap, <<Wizard, Goblin, Villager>>))),
      EngineOn(AddAll(OnDefaultMap, <<Wizard>>)),
      EngineOn(AddAll(OnDefaultMap, <<Goblin>>)),
      EngineOn(OnDefaultMap) }

\* The smallest and the largest value of a non-empty set of integers.
Ends(values) ==
    {v \in values : (\A w \in values : v <= w) \/ (\A w \in values : v >= w)}

CombatAttackDice ==
    {[NoDiceRolls EXCEPT !.d20 = r, !.d8 = d] :
        r \in {1, D20 \div 2, D20}, d \in Ends(1..D8)}

\* No die is rolled for an id that does not resolve.
AttackDiceFor(att, tgt) ==
    IF att \in DOMAIN characters /\ tgt \in DOMAIN characters
    THEN CombatAttackDice ELSE {NoDiceRolls}

Attack(att, tgt) ==
    [NoAction EXCEPT !.type = "attack", !.attacker_id = att, !.target_id = tgt]

AttackActions ==
    {Attack(att, tgt) :
        att \in {NoId, "goblin_1", GhostId},
        tgt \in {NoId, "player", "goblin_1", "orc_1", "villager"}}

DamageAmounts == {1, MaxDamage}

InitCombat ==
    /\ \E S \in Scenarios : StartsIn(S)
    /\ modules = EngineModules
    /\ last = NoCall
    /\ obs = NoObs

NextCombat ==
    \/ LogRoom /\ \E a \in AttackActions :
                     \E dice \in AttackDiceFor(AttackerIdOf(a), a.target_id) :
                        process_action(a, dice)
    \/ LogRoom /\ \E att \in {"player", GhostId} :
                     \E tgt \in {"goblin_1", "villager"} :
                     \E dice \in AttackDiceFor(att, tgt) :
                        GameEngine_execute_attack(att, tgt, dice)
    \/ LogRoom /\ \E i \in {"player", "goblin_1", "orc_1", GhostId} :
                     \E d \in DamageAmounts :
                        ApplyDamage(i, d)
    \/ IsCombatOver

SpecCombat == InitCombat /\ [][NextCombat]_vars

(***************************************************************************)
(* SpecHealth: everything that changes hit points, on the two full         *)
(* rosters: attacks, the three spells, the healing potion, direct damage.  *)
(***************************************************************************)
HealthAttacks ==
    {Attack(att, tgt) : att \in {NoId, "goblin_1"}, tgt \in {"player", "goblin_1"}}

SpellActions ==
    {[NoAction EXCEPT !.type = "cast_spell", !.spell_name = sp, !.target_id = tgt] :
        sp \in {"cure_wounds", "magic_missile", "fireball"},
        tgt \in {NoId, "goblin_1"}}

SpellRolls(a) == {[NoDiceRolls EXCEPT !.spell = v] : v \in Ends(SpellDice(a.spell_name))}

ItemActions ==
    {[NoAction EXCEPT !.type = "use_item", !.item_name = n] :
        n \in {"HealingPotion", "Longsword"}}

ItemRolls(a) ==
    IF ItemCatalog[a.item_name].has_healing
    THEN {[NoDiceRolls EXCEPT !.heal = v] :
             v \in Ends(RollDice(ItemCatalog[a.item_name].healing))}
    ELSE {NoDiceRolls}

InitHealth ==
    /\ \E S \in {T \in Scenarios : Len(T.roster) = 3} : StartsIn(S)
    /\ modules = EngineModules
    /\ last = NoCall
    /\ obs = NoObs

\* No new call is started once the log holds MaxHealthLog lines.
HealthRoom == Len(game_log) < MaxHealthLog

HealthActions == HealthAttacks \cup SpellActions \cup ItemActions

\* The dice the action's handler rolls.
RollsFor(a) ==
    CASE a.type = "attack" -> CombatAttackDice
      [] a.type = "cast_spell" -> SpellRolls(a)
      [] OTHER -> ItemRolls(a)

NextHealth ==
    \/ HealthRoom /\ \E a \in HealthActions : \E dice \in RollsFor(a) :
                        process_action(a, dice)
    \/ HealthRoom /\ \E i \in {"player", "goblin_1"} : \E d \in DamageAmounts :
                        ApplyDamage(i, d)

SpecHealth == InitHealth /\ [][NextHealth]_vars

(***************************************************************************)
(* SpecMove: moves on the default map with the roster load_map creates     *)
(* (the provider unavailable), through the movement module and through the *)
(* state store's move_character.                                           *)
(***************************************************************************)
LoadedMap ==
    AddAll(OnDefaultMap,
           <<Adds("player", "player", StartPos("player"), NoStats),
             Adds("goblin_1", "monster", StartPos("goblin_1"), NoStats),
             Adds("orc_1", "monster", StartPos("orc_1"), NoStats)>>)

Move(char_id, position) ==
    [NoAction EXCEPT !.type = "move", !.character_id = char_id,
                     !.has_position = TRUE, !.position = position]

\* Destinations: a free neighbour of the player, a rock, a free cell six
\* steps from the player, the goblin's start, a tree, a cell seven steps from
\* the player and one from the goblin, a cell east of the map.
Destinations ==
    {<<2, 1>>, <<1, 4>>, <<5, 3>>, <<4, 4>>, <<2, 2>>, <<5, 4>>, <<6, 1>>}

\* The player (the default mover) tries every destination and a move without
\* a position; the goblin three of them; an unknown id one.
MoveActions ==
    {Move(NoId, p) : p \in Destinations}
    \cup {Move("goblin_1", p) : p \in {<<5, 4>>, <<5, 3>>, <<2, 1>>}}
    \cup {Move(GhostId, <<2, 1>>), [NoAction EXCEPT !.type = "move"]}

\* Calls of the state store's move_character: who, where.
StoreMoves ==
    {<<"player", <<5, 4>> >>, <<"player", <<2, 2>> >>, <<"player", <<6, 1>> >>,
     <<GhostId, <<5, 4>> >>}

InitMove ==
    /\ StartsIn(LoadedMap)
    /\ modules = EngineModules
    /\ last = NoCall
    /\ obs = NoObs

MoveRoom == Len(game_log) < MaxMoveLog

NextMove ==
    \/ MoveRoom /\ \E a \in MoveActions : process_action(a, NoDiceRolls)
    \/ MoveRoom /\ \E m \in StoreMoves : MoveCharacter(m[1], m[2])
    \/ MoveRoom /\ ApplyDamage("goblin_1", MaxDamage)

SpecMove == InitMove /\ [][NextMove]_vars

(***************************************************************************)
(* SpecBudget: the per-turn movement budget.  A roster of two: moves and    *)
(* dashes through the router, start_combat, the engine's advance_turn and  *)
(* the host's reset of a character's movement.                             *)
(***************************************************************************)
TwoOnMap ==
    AddAll(OnDefaultMap,
           <<Adds("player", "player", StartPos("player"), NoStats),
             Adds("goblin_1", "monster", StartPos("goblin_1"), NoStats)>>)

\* Initiative rolls that put the player first, and the goblin first.
BudgetDice ==
    {[NoDiceRolls EXCEPT !.initiative["player"] = D20],
     [NoDiceRolls EXCEPT !.initiative["goblin_1"] = D20]}

BudgetActions ==
    {[NoAction EXCEPT !.type = "dash", !.character_id = c] : c \in {NoId, "goblin_1"}}
    \cup {Move(NoId, <<2, 1>>), Move(NoId, <<5, 3>>),
          [NoAction EXCEPT !.type = "start_combat"]}

DiceForBudget(a) == IF a.type = "start_combat" THEN BudgetDice ELSE {NoDiceRolls}

InitBudget ==
    /\ StartsIn(TwoOnMap)
    /\ modules = EngineModules
    /\ last = NoCall
    /\ obs = NoObs

NextBudget ==
    \/ LogRoom /\ \E a \in BudgetActions : \E dice \in DiceForBudget(a) :
                     process_action(a, dice)
    \/ LogRoom /\ GameEngine_advance_turn
    \/ LogRoom /\ ResetTurnMovement("player")

SpecBudget == InitBudget /\ [][NextBudget]_vars

(***************************************************************************)
(* SpecCasting: spell casts through the router on three rosters whose      *)
(* spell lists the host has extended (spells_known and spell_slots are     *)
(* plain attributes; no call of the program teaches a spell after          *)
(* construction).                                                          *)
(***************************************************************************)
\* The host grants a character a spell and sets its slots of that level.
Grant(S, char_id, spell_name, slots) ==
    [S EXCEPT !.characters[char_id].spells_known = @ \cup {spell_name},
              !.characters[char_id].spell_slots[SpellDatabase[spell_name].level] = slots]

Hero == Adds("player", "player", <<1, 1>>, NoStats)

\* A hero of 20 HP with cure_wounds and one level-1 slot, hurt down to 5 HP.
Apprentice ==
    _apply_damage(Grant(EngineOn(AddAll(OnDefaultMap, <<Hero, Goblin>>)),
                        "player", "cure_wounds", 1),
                  "player", 15)

\* A goblin that has fireball and one level-3 slot, next to a wizard.
GoblinShaman ==
    Grant(EngineOn(AddAll(OnDefaultMap, <<Wizard, Goblin, Orc>>)),
          "goblin_1", "fireball", 1)

CastingStarts ==
    {Apprentice,
     TeachFireball(EngineOn(AddAll(OnDefaultMap, <<Wizard, Goblin, Villager>>))),
     GoblinShaman}

Cast(char_id, spell_name, target_id) ==
    [NoAction EXCEPT !.type = "cast_spell", !.character_id = char_id,
                     !.spell_name = spell_name, !.target_id = target_id]

CastActions ==
    {Cast(NoId, "cure_wounds", NoId), Cast(NoId, "cure_wounds", GhostId),
     Cast(NoId, "magic_missile", "goblin_1"), Cast(NoId, "fireball", GhostId),
     Cast(NoId, "shield", NoId), Cast(NoId, NoSpell, NoId),
     Cast("goblin_1", "fireball", NoId), Cast(GhostId, "fireball", NoId)}

\* The dice of the spell: the ends of their range, and a 6 on the d8.
CastRolls(a) ==
    {[NoDiceRolls EXCEPT !.spell = v] :
        v \in IF a.spell_name \in SpellNames
              THEN Ends(SpellDice(a.spell_name))
                     \cup (IF a.spell_name = "cure_wounds" THEN {6} ELSE {})
              ELSE {0}}

InitCasting ==
    /\ \E S \in CastingStarts : StartsIn(S)
    /\ modules = EngineModules
    /\ last = NoCall
    /\ obs = NoObs

\* The rosters start with the three lines of the hero's equipment in the log.
CastRoom == Len(game_log) <= MaxLog

NextCasting ==
    \/ CastRoom /\ \E a \in CastActions : \E dice \in CastRolls(a) :
                      process_action(a, dice)
    \/ CastRoom /\ \E d \in DamageAmounts : ApplyDamage("player", d)

SpecCasting == InitCasting /\ [][NextCasting]_vars

(***************************************************************************)
(* SpecInventory: equip, unequip, use_item and drop_item through the       *)
(* router, on a wizard who wears the starting equipment.                   *)
(***************************************************************************)
Item(char_id, action_type, item_name) ==
    [NoAction EXCEPT !.type = action_type, !.character_id = char_id,
                     !.item_name = item_name]

\* The names an action asks for: the starting items but the rations, a name
\* in lower case, and a missing item_name.
AskedItems == {"Longsword", "ChainMail", "Shield", "HealingPotion", "chainmail", NoItem}

InventoryActions ==
    {Item(NoId, t, n) : t \in {"equip", "unequip", "use_item", "drop_item"},
                        n \in AskedItems}
      \cup {Item("goblin_1", "equip", "Shield"), Item(GhostId, "drop_item", "Shield")}

InventoryRolls(a) ==
    IF a.type = "use_item" /\ a.item_name \in ItemNames THEN ItemRolls(a)
    ELSE {NoDiceRolls}

InitInventory ==
    /\ StartsIn(EngineOn(AddAll(OnDefaultMap, <<Wizard, Goblin>>)))
    /\ modules = EngineModules
    /\ last = NoCall
    /\ obs = NoObs

NextInventory ==
    \/ LogRoom /\ \E a \in InventoryActions : \E dice \in InventoryRolls(a) :
                     process_action(a, dice)
    \/ LogRoom /\ ApplyDamage("player", MaxDamage)

SpecInventory == InitInventory /\ [][NextInventory]_vars

(***************************************************************************)
(* SpecNarration: the three DM actions through the router and the engine's *)
(* start_combat, with a narrative agent that answers, acts silently or     *)
(* fails, on a session that may fail to open.                              *)
(***************************************************************************)
AgentDice ==
    {[NoDiceRolls EXCEPT !.dm_session = o, !.dm_reply = r] :
        o \in {"ok", "no_chat", "no_reply"}, r \in {"narrates", "acts", "fails"}}

NarrationActions ==
    {[NoAction EXCEPT !.type = t] : t \in {"chat_with_dm", "dm_narrate", "dm_response"}}

InitNarration ==
    /\ StartsIn(EngineOn(AddAll(OnDefaultMap, <<Wizard, Goblin>>)))
    /\ modules = EngineModules
    /\ last = NoCall
    /\ obs = NoObs

NextNarration ==
    \/ CastRoom /\ \E a \in NarrationActions : \E dice \in AgentDice :
                      process_action(a, dice)
    \/ CastRoom /\ \E dice \in AgentDice : GameEngine_start_combat(dice)

SpecNarration == InitNarration /\ [][NextNarration]_vars

(***************************************************************************)
(* get_available_actions of the modules: the entries offered to a          *)
(* character, each with its type, the item or spell it names and, for a    *)
(* move, the remaining feet shown.                                         *)
(***************************************************************************)
Offer(type, name, remaining) == [type |-> type, name |-> name, remaining |-> remaining]

MovementModule_get_available_actions(S, character_id) ==
    IF ~HasCharacter(S, character_id) THEN {}
    ELSE LET character == S.characters[character_id]
             speed == _get_character_speed(character)
             used_movement == S.movement_used[character_id]
             remaining == speed - used_movement
         IN {Offer("move", "", remaining)}
              \cup (IF ~character.dashed_this_turn /\ remaining < speed
                    THEN {Offer("dash", "", 0)} ELSE {})

SpellsModule_get_available_actions(S, character_id) ==
    IF ~HasCharacter(S, character_id) THEN {}
    ELSE LET character == S.characters[character_id]
         IN IF ~character.has_spells THEN {}
            ELSE {Offer("cast_spell", spell_name, 0) :
                    spell_name \in
                      {sp \in character.spells_known \cap SpellNames :
                          character.spell_slots_used[SpellDatabase[sp].level]
                            < character.spell_slots[SpellDatabase[sp].level]}}

InventoryModule_get_available_actions(S, character_id) ==
    IF ~HasCharacter(S, character_id) THEN {}
    ELSE LET character == S.characters[character_id]
         IN IF ~character.has_inventory THEN {}
            ELSE {Offer("equip", character.inventory[k], 0) :
                    k \in {j \in 1..Len(character.inventory) :
                             ItemCatalog[character.inventory[j]].type \in BaseSlots}}
                 \cup
                 {Offer("use_item", character.inventory[k], 0) :
                    k \in {j \in 1..Len(character.inventory) :
                             ItemCatalog[character.inventory[j]].type = "consumable"}}

(***************************************************************************)
(* SpecRoster: the engine is constructed on an empty store (main.py) and   *)
(* characters are added afterwards, before and during combat, an id more   *)
(* than once, with every kind of answer of the stat provider; in between,  *)
(* actions of the late characters are routed.                              *)
(***************************************************************************)
RosterAnswers(char_type) ==
    ProviderAnswers(char_type) \cup (IF char_type = "player" THEN HalfAnswers ELSE {})

RosterIds == {"player", "goblin_1", "villager"}

RosterType(char_id) ==
    CASE char_id = "player" -> "player"
      [] char_id = "villager" -> "npc"
      [] OTHER -> "monster"

RosterActions ==
    {[NoAction EXCEPT !.type = "start_combat"],
     [NoAction EXCEPT !.type = "prepare_spell", !.spell_name = "shield"],
     Item(NoId, "equip", "Longsword"),
     Item("goblin_1", "drop_item", "Shield"),
     Cast(NoId, "cure_wounds", NoId)}

InitRoster ==
    /\ StartsIn([EmptyState EXCEPT !.map_data = DefaultMap, !.dm = OpenSession])
    /\ modules = EngineModules
    /\ last = NoCall
    /\ obs = NoObs

NextRoster ==
    \/ \E i \in RosterIds : \E st \in RosterAnswers(RosterType(i)) :
          AddCharacter(i, RosterType(i), StartPos(i), st)
    \/ MoveRoom /\ \E a \in RosterActions : \E dice \in DiceForBudget(a) :
                      process_action(a, dice)
    \/ MoveRoom /\ GameEngine_advance_turn

SpecRoster == InitRoster /\ [][NextRoster]_vars

(***************************************************************************)
(* SpecLog: a session whose log is already long, a little short of the     *)
(* serialised tail, is continued with direct log lines, routed actions,    *)
(* combat starts and serialisations.                                       *)
(***************************************************************************)
Notes == {<<"note", "torch">>, <<"note", "door">>}

RECURSIVE LoggedNotes(_, _)
LoggedNotes(S, n) ==
    IF n = 0 THEN S
    ELSE LoggedNotes(add_to_log(S, IF n % 2 = 0 THEN <<"note", "torch">>
                                               ELSE <<"note", "door">>), n - 1)

LongLogRoom == Len(game_log) < MaxLongLog

LogActions ==
    {Item("player", "equip", "Shield"),
     Item("player", "use_item", "Rations"),
     [NoAction EXCEPT !.type = "chat_with_dm"]}

AddToLog(message) ==
    /\ SetState(add_to_log(CurrentState, message))
    /\ last' = Call("add_to_log", NoAction, "none", <<>>, 0)
    /\ UNCHANGED <<modules, obs>>

SerializeState ==
    /\ last' = [Call("serialize_state", NoAction, "none", <<>>, 0)
                  EXCEPT !.returned = serialize_state_log(CurrentState)]
    /\ UNCHANGED <<gsmVars, modules, obs>>

InitLog ==
    /\ \E S \in {EngineOn(AddAll(OnDefaultMap, <<Wizard, Goblin>>))} :
          StartsIn(LoggedNotes(S, LogTail - 2 - Len(S.game_log)))
    /\ modules = EngineModules
    /\ last = NoCall
    /\ obs = NoObs

NextLog ==
    \/ LongLogRoom /\ \E m \in Notes : AddToLog(m)
    \/ LongLogRoom /\ \E a \in LogActions : process_action(a, NoDiceRolls)
    \/ LongLogRoom /\ GameEngine_start_combat(NoDiceRolls)
    \/ SerializeState

SpecLog == InitLog /\ [][NextLog]_vars

(***************************************************************************)
(* SpecAgent: the narrative agent answers with move_character and          *)
(* attack_character calls for the goblin, to a chat of the player through  *)
(* the router and in the monster turn of the console driver.               *)
(***************************************************************************)
AgentReplies ==
    {<<MoveCharacterCall("goblin_1", p)>> : p \in {<<2, 3>>, <<2, 2>>, <<5, 5>>}}
      \cup {<<AttackCharacterCall("goblin_1", "player")>>,
            <<MoveCharacterCall("goblin_1", <<1, 3>>),
              AttackCharacterCall("goblin_1", "player")>>}

ActingDice ==
    {[NoDiceRolls EXCEPT !.dm_calls = calls, !.d20 = d] :
        calls \in AgentReplies, d \in {17, D20}}
      \cup {[NoDiceRolls EXCEPT !.dm_reply = "narrates"]}

InitAgent ==
    /\ \E S \in {EngineOn(AddAll(OnDefaultMap, <<Wizard, Goblin>>))} :
          StartsIn([S EXCEPT !.dm = OpenSession])
    /\ modules = EngineModules
    /\ last = NoCall
    /\ obs = NoObs

NextAgent ==
    \/ LogRoom /\ \E dice \in ActingDice :
                     process_action([NoAction EXCEPT !.type = "chat_with_dm"], dice)
    \/ LogRoom /\ \E dice \in ActingDice : GameEngine_process_ai_actions(dice)
    \/ LogRoom /\ GameEngine_advance_turn

SpecAgent == InitAgent /\ [][NextAgent]_vars

(***************************************************************************)
(* SpecConsole: the game loop of the console driver (console_game.py), one *)
(* action per branch of an iteration.  Outside combat the player's input   *)
(* is parsed into player_action_data and a successful attack starts the    *)
(* combat; in combat the player's branch reads a line and processes        *)
(* player_action_data as it was left by the iteration that started the     *)
(* combat, so with the goblin as the only monster in reach it is the       *)
(* attack on the goblin.  The loop never stops by itself while combat is   *)
(* not over, hence the weak fairness of its iterations.  No code of the    *)
(* loop reads the log; the specification keeps its last MaxConsoleLog      *)
(* lines.                                                                  *)
(***************************************************************************)
LogWindow(S) ==
    IF Len(S.game_log) <= MaxConsoleLog THEN S
    ELSE [S EXCEPT !.game_log = SubSeq(@, Len(@) - MaxConsoleLog + 1, Len(@))]

ConsoleInputs ==
    {Move("player", <<2, 1>>), Attack("player", "goblin_1"),
     [NoAction EXCEPT !.type = "wait"]}

player_action_data == Attack("player", "goblin_1")

ConsoleDice ==
    {[NoDiceRolls EXCEPT !.d20 = d, !.d8 = 5, !.initiative = i.initiative,
                         !.dm_reply = r[1], !.dm_calls = r[2]] :
        d \in {1, D20}, i \in BudgetDice,
        r \in {<<"narrates", <<>>>>,
               <<"acts", <<MoveCharacterCall("goblin_1", <<4, 1>>)>>>>,
               <<"acts", <<AttackCharacterCall("goblin_1", "player")>>>>}}

ConsoleStep(S, op, a) ==
    /\ SetState(LogWindow(S))
    /\ last' = Call(op, a, "none", <<>>, 0)
    /\ UNCHANGED <<modules, obs>>

\* Non-combat branch (console_game.py:134-222).
ConsoleFreePlay ==
    /\ ~is_combat_over(CurrentState)
    /\ ~combat_active
    /\ \E a \in ConsoleInputs : \E dice \in ConsoleDice :
          LET r == GameEngine_process_player_action(CurrentState, a, dice)
          IN ConsoleStep(IF r.ret = "true" /\ a.type = "attack"
                         THEN _start_combat(r.state, dice).state
                         ELSE r.state,
                         "console_free_play", a)

\* Skip dead characters (console_game.py:228-232).
ConsoleSkipDefeated ==
    LET current == get_current_character(CurrentState) IN
    /\ ~is_combat_over(CurrentState)
    /\ combat_active
    /\ current # NoId
    /\ characters[current].hp <= 0
    /\ ConsoleStep(advance_turn(add_to_log(CurrentState, <<"unable_to_act", current>>)),
                   "console_skip", NoAction)

\* Player's turn (console_game.py:234-253).
ConsolePlayerTurn ==
    LET current == get_current_character(CurrentState) IN
    /\ ~is_combat_over(CurrentState)
    /\ combat_active
    /\ current # NoId
    /\ characters[current].hp > 0
    /\ characters[current].type = "player"
    /\ \E dice \in ConsoleDice :
          LET r == GameEngine_process_player_action(CurrentState, player_action_data, dice)
          IN ConsoleStep(IF r.ret = "true" THEN advance_turn(r.state) ELSE r.state,
                         "console_player_turn", player_action_data)

\* AI's turn (console_game.py:255-278).
ConsoleMonsterTurn ==
    LET current == get_current_character(CurrentState) IN
    /\ ~is_combat_over(CurrentState)
    /\ combat_active
    /\ current # NoId
    /\ characters[current].hp > 0
    /\ characters[current].type = "monster"
    /\ \E dice \in ConsoleDice :
          LET g == get_npc_actions(CurrentState, dice)
          IN ConsoleStep(advance_turn(LogNarration(
                             process_ai_actions(g.state, g.calls, dice), g.texts)),
                         "console_monster_turn", NoAction)

InitConsole ==
    /\ StartsIn([AddAll(OnDefaultMap, <<Wizard, Goblin, Orc>>) EXCEPT !.dm = OpenSession])
    /\ modules = <<>>
    /\ last = NoCall
    /\ obs = NoObs

NextConsole ==
    \/ ConsoleFreePlay
    \/ ConsoleSkipDefeated
    \/ ConsolePlayerTurn
    \/ ConsoleMonsterTurn

SpecConsole == InitConsole /\ [][NextConsole]_vars /\ WF_vars(NextConsole)

(***************************************************************************)
(* SpecRound: a combat of three in which characters are defeated while the *)
(* turn goes round.                                                        *)
(***************************************************************************)
InitRound ==
    /\ StartsIn([AddAll(OnDefaultMap, <<Wizard, Goblin, Orc>>) EXCEPT !.dm = OpenSession])
    /\ modules = EngineModules
    /\ last = NoCall
    /\ obs = NoObs

\* No new call is started once the log holds MaxLog + 4 lines.
RoundRoom == Len(game_log) < MaxLog + 4

NextRound ==
    \/ RoundRoom /\ \E dice \in BudgetDice : GameEngine_start_combat(dice)
    \/ RoundRoom /\ AdvanceTurn
    \/ RoundRoom /\ GameEngine_advance_turn
    \/ RoundRoom /\ \E i \in {"player", "goblin_1", "orc_1"} : ApplyDamage(i, MaxDamage)

SpecRound == InitRound /\ [][NextRound]_vars

(***************************************************************************)
(* Router claims.                                                          *)
(***************************************************************************)
\* Indices of the registered modules that claim action a, in registration order.
Claimers(a) ==
    SelectSeq([i \in 1..Len(modules) |-> i], LAMBDA i : can_handle(modules[i], a))

\* The claimers that a scan reaches: up to and including the first that
\* returns true, all of them when none does.
RECURSIVE UpToFirstTrue(_)
UpToFirstTrue(cs) ==
    IF cs = <<>> THEN <<>>
    ELSE IF modules[Head(cs)].behave = "true" THEN <<Head(cs)>>
    ELSE <<Head(cs)>> \o UpToFirstTrue(Tail(cs))

SomeTrueFrom(cs, k) ==
    \E j \in k..Len(cs) : modules[cs[j]].behave = "true"

Routed == last.op = "process_action"

\* C1 as stated: with two or more claiming modules, the non-raising result of
\* the first claiming module is the result of the call and no later module's
\* process_action runs.
C1_FirstClaimerIsFinal ==
    Routed =>
      LET cs == Claimers(last.action) IN
      (Len(cs) >= 2 /\ modules[cs[1]].behave # "raise") =>
          /\ last.ret = modules[cs[1]].behave
          /\ last.invoked = <<cs[1]>>

\* C1 amended: with two or more claiming modules, the first claiming module is
\* invoked first; if it returns true the call returns true and no later module
\* is invoked; if it returns false the scan goes on: the later claiming modules
\* are invoked in registration order up to the first that returns true, and
\* the call fails only if none of them returns true.
C1_FirstTrueClaimerIsFinal ==
    Routed =>
      LET cs == Claimers(last.action) IN
      (Len(cs) >= 2 /\ modules[cs[1]].behave # "raise") =>
          /\ last.invoked # <<>> /\ Head(last.invoked) = cs[1]
          /\ modules[cs[1]].behave = "true" =>
                (last.ret = "true" /\ last.invoked = <<cs[1]>>)
          /\ modules[cs[1]].behave = "false" =>
                /\ Len(last.invoked) >= 2 /\ last.invoked[2] = cs[2]
                /\ last.invoked = UpToFirstTrue(cs)
                /\ (last.ret = "true") <=> SomeTrueFrom(cs, 2)
                /\ last.ret \in {"true", "false"}

\* C1 witness: the first claiming module returned false and the second, run
\* after it, returned true.
C1_Witness ==
    /\ Routed
    /\ LET cs == Claimers(last.action) IN
         /\ Len(cs) >= 2
         /\ modules[cs[1]].behave = "false"
         /\ modules[cs[2]].behave = "true"
         /\ last.invoked = <<cs[1], cs[2]>>
         /\ last.ret = "true"

\* C2 as stated: when a claiming module raises, the error does not reach the
\* caller, the next claiming module is invoked and its result is the result of
\* the call; with no later claiming module the call returns false.
C2_NextClaimerDecides ==
    Routed =>
      LET cs == Claimers(last.action) IN
      \A k \in 1..Len(cs) :
        (modules[cs[k]].behave = "raise"
           /\ \A j \in 1..(k - 1) : modules[cs[j]].behave = "raise") =>
            /\ last.ret \in {"true", "false"}
            /\ k < Len(cs) =>
                 /\ \E n \in 1..Len(last.invoked) : last.invoked[n] = cs[k + 1]
                 /\ modules[cs[k + 1]].behave # "raise" =>
                       last.ret = modules[cs[k + 1]].behave
            /\ k = Len(cs) => last.ret = "false"

\* C2 amended: when a claiming module's process_action raises, the error does
\* not reach the caller and the next claiming module in registration order is
\* invoked; the call returns true iff some later claiming module returns true
\* (a later module that returns false or raises does not end the scan), and
\* false when no later module claims the action.
C2_RaiseIsIsolated ==
    Routed =>
      LET cs == Claimers(last.action) IN
      /\ last.ret \in {"true", "false"}
      /\ \A k \in 1..Len(cs) :
           (modules[cs[k]].behave = "raise"
              /\ \E n \in 1..Len(last.invoked) : last.invoked[n] = cs[k]) =>
               /\ k < Len(cs) =>
                    \E n \in 1..Len(last.invoked) : last.invoked[n] = cs[k + 1]
               /\ (last.ret = "true") <=> SomeTrueFrom(cs, k + 1)
               /\ k = Len(cs) => last.ret = "false"

\* C2 witness: the first claiming module raised and the next one, invoked
\* after it, handled the action.
C2_Witness ==
    /\ Routed
    /\ LET cs == Claimers(last.action) IN
         /\ Len(cs) >= 2
         /\ modules[cs[1]].behave = "raise"
         /\ modules[cs[2]].behave = "true"
         /\ last.invoked = <<cs[1], cs[2]>>
         /\ last.ret = "true"

(***************************************************************************)
(* Turn controller claims.                                                 *)
(***************************************************************************)
\* C3: a routed action that no registered module claims (an unknown or a
\* missing type) returns false, runs no module's process_action and leaves
\* characters, turn order, turn index, combat flag and log as they were.
C3_UnclaimedChangesNothing ==
    [][(last'.op = "process_action" /\ Claimers(last'.action) = <<>>) =>
          /\ last'.ret = "false"
          /\ last'.invoked = <<>>
          /\ UNCHANGED gsmVars]_vars

\* C3 witness: an unclaimed action was routed during a combat with characters
\* on the roster and lines in the log.
C3_Witness ==
    /\ Routed
    /\ Claimers(last.action) = <<>>
    /\ last.action.type = NoType
    /\ last.ret = "false"
    /\ combat_active
    /\ Len(turn_order) >= 2
    /\ game_log # <<>>

\* C4 as stated: once combat is active the turn index is a valid index into
\* the turn order, whatever the roster, an empty one included.
C4_IndexAlwaysValid ==
    combat_active =>
        (0 <= current_turn_index /\ current_turn_index < Len(turn_order))

\* C4 amended: once combat is active the turn index is a valid index into the
\* turn order whenever the turn order is not empty; a combat started on an
\* empty roster has an empty turn order and the index stays 0, which indexes
\* nothing.
C4_IndexValidWhenNonEmpty ==
    combat_active =>
        /\ 0 <= current_turn_index
        /\ turn_order # <<>> => current_turn_index < Len(turn_order)
        /\ turn_order = <<>> => current_turn_index = 0

\* C4 witness: combat was started on an empty roster and the turn advanced.
C4_Witness ==
    /\ combat_active
    /\ turn_order = <<>>
    /\ current_turn_index = 0
    /\ last.op \in {"advance_turn", "engine_advance_turn"}

\* The last call was a start_combat, of the combat module through the router
\* or of the older engine.
StartedCombat ==
    \/ last.op = "start_combat"
    \/ (Routed /\ last.action.type = "start_combat" /\ last.ret = "true")

RosterIndex(char_id) == CHOOSE k \in 1..Len(roster) : roster[k] = char_id

\* C5: after every start_combat the turn order holds each id of the roster
\* exactly once, in descending order of the initiative just rolled (1..20),
\* ids of equal initiative in roster insertion order; the turn index is 0 and
\* combat is active.  A repeated start_combat gives the same for the roster of
\* that moment.
C5_TurnOrderAfterStart ==
    StartedCombat =>
        /\ Len(turn_order) = Cardinality(DOMAIN characters)
        /\ {turn_order[k] : k \in 1..Len(turn_order)} = DOMAIN characters
        /\ \A i \in DOMAIN characters : characters[i].initiative \in 1..D20
        /\ \A j, k \in 1..Len(turn_order) :
              j < k =>
                /\ characters[turn_order[j]].initiative
                      >= characters[turn_order[k]].initiative
                /\ characters[turn_order[j]].initiative
                      = characters[turn_order[k]].initiative =>
                          RosterIndex(turn_order[j]) < RosterIndex(turn_order[k])
        /\ current_turn_index = 0
        /\ combat_active

\* C5 witness: a second start_combat, after the roster grew from one
\* character to three, with two characters tied below the third.
C5_Witness ==
    /\ StartedCombat
    /\ Len(game_log) >= 3 /\ game_log[3][1] = "turn_order"
    /\ Len(turn_order) = 3
    /\ characters[turn_order[2]].initiative = characters[turn_order[3]].initiative
    /\ characters[turn_order[1]].initiative > characters[turn_order[2]].initiative
    /\ turn_order[1] = roster[3]

\* New-round lines logged since the turn order was last built (all of them
\* when it was never built).
RECURSIVE RoundsSinceStart(_)
RoundsSinceStart(log) ==
    IF log = <<>> \/ log[Len(log)][1] = "turn_order" THEN 0
    ELSE (IF log[Len(log)][1] = "new_round" THEN 1 ELSE 0)
         + RoundsSinceStart(SubSeq(log, 1, Len(log) - 1))

AdvanceStep(l) == l.op \in {"advance_turn", "engine_advance_turn"}

\* C6: with a turn order of n >= 1 ids, k calls of advance_turn since the
\* last start_combat leave the index at k mod n and k div n new-round lines in
\* the log, so n calls from index i come back to i with exactly one new line;
\* each call appends the new-round line, and nothing else, exactly when it
\* leaves the last entry, and appends nothing otherwise.
C6_AdvanceCycles ==
    /\ [](turn_order # <<>> =>
            /\ current_turn_index = obs.advances % Len(turn_order)
            /\ RoundsSinceStart(game_log) = obs.advances \div Len(turn_order))
    /\ [][(AdvanceStep(last') /\ obs'.advances = obs.advances + 1
             /\ turn_order # <<>>) =>
            IF current_turn_index = Len(turn_order) - 1
            THEN /\ current_turn_index' = 0
                 /\ game_log' = Append(game_log, <<"new_round", "">>)
            ELSE /\ current_turn_index' = current_turn_index + 1
                 /\ game_log' = game_log]_vars

\* C6 witness: with two ids in the turn order, two calls from index 1 came
\* back to index 1 and logged one new round.
C6_Witness ==
    /\ Len(turn_order) = 2
    /\ obs.advances = 3
    /\ current_turn_index = 1
    /\ RoundsSinceStart(game_log) = 1
    /\ AdvanceStep(last)

(***************************************************************************)
(* Combat claims.                                                          *)
(***************************************************************************)
\* No character of the category has hit points left (none at all included).
NoneStanding(category) ==
    \A i \in DOMAIN characters :
        characters[i].type = category => characters[i].hp <= 0

\* C7: is_combat_over returns true iff no monster has HP > 0 or no player has
\* HP > 0, a side without members counting as defeated and characters of any
\* other category not counting at all; the call changes no state.
C7_CombatOverIffSideDown ==
    [][last'.op = "is_combat_over" =>
          /\ UNCHANGED gsmVars
          /\ last'.ret \in {"true", "false"}
          /\ (last'.ret = "true") <=> (NoneStanding("monster") \/ NoneStanding("player"))]_vars

\* C7 witness: the call returned true with every monster down, a player and
\* a villager (another category) still standing.
C7_Witness ==
    /\ last.op = "is_combat_over"
    /\ last.ret = "true"
    /\ \E i \in DOMAIN characters : characters[i].type = "monster"
    /\ NoneStanding("monster")
    /\ ~NoneStanding("player")
    /\ \E i \in DOMAIN characters :
          characters[i].type = "npc" /\ characters[i].hp > 0

\* The damage and the healing that the last call rolled, from its dice.
AttackCall(l) ==
    l.op = "execute_attack" \/ (l.op = "process_action" /\ l.action.type = "attack")

SpellCall(l, spell_name) ==
    l.op = "process_action" /\ l.action.type = "cast_spell"
        /\ l.action.spell_name = spell_name

DamageOf(l) ==
    CASE l.op = "apply_damage" -> l.amount
      [] AttackCall(l) -> l.amount + 2
      [] SpellCall(l, "magic_missile") -> l.amount + 3
      [] SpellCall(l, "fireball") -> l.amount
      [] OTHER -> 0

HealingOf(l) ==
    CASE SpellCall(l, "cure_wounds") -> l.amount + 3
      [] l.op = "process_action" /\ l.action.type = "use_item" -> l.amount
      [] OTHER -> 0

\* C8: every character always has 0 <= hp <= max_hp; a call either leaves a
\* character's hit points alone, or takes its damage d off them with a floor
\* of 0 (so d >= hp gives 0), or adds its healing h with a ceiling of max_hp;
\* max_hp never changes.
C8_HitPointsStayInRange ==
    /\ [](\A i \in DOMAIN characters :
             0 <= characters[i].hp /\ characters[i].hp <= characters[i].max_hp)
    /\ [][\A i \in DOMAIN characters :
             /\ characters'[i].max_hp = characters[i].max_hp
             /\ \/ characters'[i].hp = characters[i].hp
                \/ /\ DamageOf(last') > 0
                   /\ characters'[i].hp =
                        (IF DamageOf(last') >= characters[i].hp THEN 0
                         ELSE characters[i].hp - DamageOf(last'))
                \/ /\ HealingOf(last') > 0
                   /\ characters'[i].hp =
                        (IF characters[i].hp + HealingOf(last') >= characters[i].max_hp
                         THEN characters[i].max_hp
                         ELSE characters[i].hp + HealingOf(last'))]_vars

\* C8 witness: the player, hurt before, drank a potion whose healing was cut
\* off at max_hp, while the goblin lies at 0 after damage above its max_hp.
C8_Witness ==
    /\ last.op = "process_action"
    /\ last.action.type = "use_item"
    /\ last.ret = "true"
    /\ last.amount > characters["player"].max_hp
    /\ characters["player"].hp = characters["player"].max_hp
    /\ \E k \in 1..Len(game_log) : game_log[k] = <<"damage", "player">>
    /\ characters["goblin_1"].hp = 0

\* Defeat lines of a character in a log.
RECURSIVE DefeatLines(_, _)
DefeatLines(log, char_id) ==
    IF log = <<>> THEN 0
    ELSE (IF Head(log) = <<"defeated", char_id>> THEN 1 ELSE 0)
         + DefeatLines(Tail(log), char_id)

\* C9 as stated: a defeat line for a character is appended only by the damage
\* that takes its HP from positive to 0, once, and that damage always appends
\* it; damage to a character already at HP 0 appends none.
C9_DefeatLoggedOnce ==
    [][\A i \in DOMAIN characters :
          /\ DefeatLines(game_log', i) - DefeatLines(game_log, i) =
                (IF characters[i].hp > 0 /\ characters'[i].hp = 0 THEN 1 ELSE 0)]_vars

\* Squares between two positions, counted along the grid.
GridSteps(p, q) ==
    (IF p[1] >= q[1] THEN p[1] - q[1] ELSE q[1] - p[1])
    + (IF p[2] >= q[2] THEN p[2] - q[2] ELSE q[2] - p[2])

AttackerOf(l) ==
    IF l.op = "process_action" THEN AttackerIdOf(l.action) ELSE l.action.attacker_id

Unresolved(l) ==
    \/ AttackerOf(l) \notin DOMAIN characters
    \/ l.action.target_id \notin DOMAIN characters

OutOfRange(l) ==
    /\ ~Unresolved(l)
    /\ GridSteps(characters[AttackerOf(l)].position,
                 characters[l.action.target_id].position) > 1

\* C10: an attack returns false iff the attacker id or the target id resolves
\* to no character or the two are more than 1 apart in Manhattan distance; a
\* failed attack changes no character (HP, position, items, spell slots) and no
\* movement budget, appends nothing to the log when an id is unresolved and
\* exactly the 'too far' line when out of range.
C10_AttackFailsIffUnresolvedOrFar ==
    [][AttackCall(last') =>
          /\ last'.ret \in {"true", "false"}
          /\ (last'.ret = "false") <=> (Unresolved(last') \/ OutOfRange(last'))
          /\ last'.ret = "false" =>
                /\ characters' = characters
                /\ movement_used' = movement_used
                /\ UNCHANGED <<roster, combat_active, turn_order, current_turn_index>>
                /\ Unresolved(last') => game_log' = game_log
                /\ OutOfRange(last') =>
                      game_log' = Append(game_log, <<"too_far", AttackerOf(last')>>)]_vars

\* C10 witness: after a hit on the goblin, the player's attack on the
\* villager, a diagonal step away, failed with the 'too far' line.
C10_Witness ==
    /\ AttackCall(last)
    /\ last.ret = "false"
    /\ AttackerOf(last) = "player"
    /\ last.action.target_id = "villager"
    /\ "villager" \in DOMAIN characters
    /\ game_log[Len(game_log)] = <<"too_far", "player">>
    /\ characters["goblin_1"].hp < characters["goblin_1"].max_hp

\* The last call was an attack between two characters at most one square
\* apart (both judged in the state before the call).
InRange(l) == AttackCall(l) /\ ~Unresolved(l) /\ ~OutOfRange(l)

\* The step logged the to-hit roll and then damage to the target.
HitStep(tgt) ==
    /\ Len(game_log') >= Len(game_log) + 2
    /\ game_log'[Len(game_log) + 2] = <<"damage", tgt>>

\* C11 as stated: an in-range attack, through the combat module or through the
\* engine's execute_attack, hits iff the d20 roll (1..20) plus the attacker's
\* attack bonus is at least the target's armor class, equality included.
C11_HitIffRollPlusBonus ==
    [][InRange(last') =>
          /\ last'.d20 \in 1..D20
          /\ HitStep(last'.action.target_id) <=>
                (last'.d20 + characters[AttackerOf(last')].attack_bonus
                    >= characters[last'.action.target_id].ac)]_vars

\* The modifier the entry point adds to the d20: the attacker's attack bonus
\* in the combat module, 3 in the engine's execute_attack.
ModifierUsed(l) ==
    IF l.op = "execute_attack" THEN 3 ELSE characters[AttackerOf(l)].attack_bonus

\* C12: an in-range attack always returns true.  When the to-hit total reaches
\* the target's armor class the target's HP becomes max(0, HP - (r + 2)) for
\* the damage roll r in 1..8, no other character's HP changes, and the log
\* gets the roll line, the damage line and, exactly when the HP is then 0,
\* the defeat line; otherwise no HP changes and the log gets the roll line
\* and the miss line.
C12_InRangeAttackSucceeds ==
    [][InRange(last') =>
          LET att == AttackerOf(last')
              tgt == last'.action.target_id
              r == last'.amount
              hp == characters[tgt].hp
              new_hp == IF hp - (r + 2) > 0 THEN hp - (r + 2) ELSE 0
              roll_line == <<"attack_roll", att>>
          IN /\ last'.ret = "true"
             /\ r \in 1..D8
             /\ DOMAIN characters' = DOMAIN characters
             /\ IF last'.d20 + ModifierUsed(last') >= characters[tgt].ac
                THEN /\ characters'[tgt].hp = new_hp
                     /\ \A i \in DOMAIN characters \ {tgt} :
                           characters'[i].hp = characters[i].hp
                     /\ game_log' =
                           game_log \o <<roll_line, <<"damage", tgt>> >>
                             \o (IF new_hp = 0 THEN << <<"defeated", tgt>> >> ELSE <<>>)
                ELSE /\ \A i \in DOMAIN characters :
                           characters'[i].hp = characters[i].hp
                     /\ game_log' = game_log \o <<roll_line, <<"miss", att>> >>]_vars

\* C12 witness: a hit took the goblin from its full 7 HP to 0 and the defeat
\* line closes the log.
C12_Witness ==
    /\ AttackCall(last)
    /\ last.ret = "true"
    /\ last.action.target_id = "goblin_1"
    /\ "goblin_1" \in DOMAIN characters
    /\ characters["goblin_1"].max_hp = 7
    /\ characters["goblin_1"].hp = 0
    /\ game_log = << <<"attack_roll", AttackerOf(last)>>, <<"damage", "goblin_1">>,
                     <<"defeated", "goblin_1">> >>

(***************************************************************************)
(* Movement claims.                                                        *)
(***************************************************************************)
MoveCall(l) == l.op = "process_action" /\ l.action.type = "move"

\* The character a move call names and the destination it asks for.
MoverOf(l) ==
    IF l.op = "process_action" THEN CharacterIdOf(l.action) ELSE l.action.character_id

DestinationOf(l) == IF l.action.has_position THEN l.action.position ELSE <<0, 0>>

\* Feet between a character and a cell, 5 per grid step.
FeetTo(c, p) == 5 * GridSteps(characters[c].position, p)

\* The speed of a character: that of its race, 30 without one.
SpeedOf(c) == IF characters[c].speed # 0 THEN characters[c].speed ELSE 30

HeldByOther(c, p) ==
    \E o \in DOMAIN characters : o # c /\ characters[o].position = p

Acceptable(c, p) ==
    /\ FeetTo(c, p) <= SpeedOf(c) - movement_used[c]
    /\ p[1] \in 0..(map_data.width - 1)
    /\ p[2] \in 0..(map_data.height - 1)
    /\ ~HeldByOther(c, p)
    /\ p \notin map_data.trees

\* C13: a move action for an existing character c to p is accepted iff
\* 5 x ManhattanDistance(c.position, p) <= speed(c) - movement_used(c), p is
\* inside the map, no other character (living or defeated) stands on p and p
\* is not a tree cell; on acceptance c stands on p and movement_used(c) has
\* grown by exactly 5 x the distance.
C13_MoveAcceptedIff ==
    [][(MoveCall(last') /\ MoverOf(last') \in DOMAIN characters) =>
          LET c == MoverOf(last')
              p == DestinationOf(last')
          IN /\ last'.ret \in {"true", "false"}
             /\ (last'.ret = "true") <=> Acceptable(c, p)
             /\ last'.ret = "true" =>
                   /\ characters'[c].position = p
                   /\ movement_used'[c] = movement_used[c] + FeetTo(c, p)]_vars

\* C13 witness: the player, having moved before, was let onto the rock cell
\* and has used the feet of both moves.
C13_Witness ==
    /\ MoveCall(last)
    /\ last.ret = "true"
    /\ MoverOf(last) = "player"
    /\ characters["player"].position = <<1, 4>>
    /\ <<1, 4>> \in map_data.rocks
    /\ movement_used["player"] = 25

\* C14: a rejected move (over budget, out of bounds, occupied, blocked, or
\* for an unknown character) returns false and leaves every character's
\* position and every used-movement counter as they were.
C14_RejectedMoveChangesNothing ==
    [][(MoveCall(last')
          /\ (MoverOf(last') \notin DOMAIN characters
                \/ ~Acceptable(MoverOf(last'), DestinationOf(last')))) =>
          /\ last'.ret = "false"
          /\ DOMAIN characters' = DOMAIN characters
          /\ \A i \in DOMAIN characters :
                characters'[i].position = characters[i].position
          /\ movement_used' = movement_used]_vars

\* C14 witness: with its full 30 feet the player asked for a move of 7 grid
\* units, which was refused; the player stands where it stood and has used
\* nothing.
C14_Witness ==
    /\ MoveCall(last)
    /\ last.ret = "false"
    /\ MoverOf(last) = "player"
    /\ GridSteps(characters["player"].position, DestinationOf(last)) = 7
    /\ characters["player"].position = <<1, 1>>
    /\ movement_used["player"] = 0
    /\ SpeedOf("player") = 30
    /\ game_log[Len(game_log)] = <<"not_enough_movement", "player">>

\* C15: from distinct starting cells, after any sequence of move actions and
\* move_character calls no two characters stand on the same cell, and a move
\* of either kind onto a cell another character holds returns false and
\* moves nobody.
C15_NoSharedCell ==
    /\ [](\A i, j \in DOMAIN characters :
             i # j => characters[i].position # characters[j].position)
    /\ [][((MoveCall(last') \/ last'.op = "move_character")
             /\ MoverOf(last') \in DOMAIN characters
             /\ HeldByOther(MoverOf(last'), DestinationOf(last'))) =>
            /\ last'.ret = "false"
            /\ \A i \in DOMAIN characters :
                  characters'[i].position = characters[i].position]_vars

\* C15 witness: the goblin moved to a new cell and the state store then
\* refused to put the player on it.
C15_Witness ==
    /\ last.op = "move_character"
    /\ last.ret = "false"
    /\ MoverOf(last) = "player"
    /\ characters["goblin_1"].position = DestinationOf(last)
    /\ characters["goblin_1"].position # StartPos("goblin_1")

\* C16 as stated: whenever a character becomes the current actor of an
\* active combat, as the first actor after start_combat or as the actor the
\* engine's advance_turn selects, its used movement is 0 and it has not
\* dashed, whatever it did before the combat or outside its own turn.
C16_ActorStartsFresh ==
    ((StartedCombat \/ last.op = "engine_advance_turn")
        /\ combat_active /\ turn_order # <<>>) =>
        LET actor == turn_order[current_turn_index + 1]
        IN /\ movement_used[actor] = 0
           /\ ~characters[actor].dashed_this_turn

DashCall(l) == l.op = "process_action" /\ l.action.type = "dash"

CastCall(l) == l.op = "process_action" /\ l.action.type = "cast_spell"

CasterOf(l) == CharacterIdOf(l.action)

Knows(c, sp) == characters[c].has_spells /\ sp \in characters[c].spells_known

FreeSlot(c, sp) ==
    characters[c].spell_slots_used[SpellDatabase[sp].level]
        < characters[c].spell_slots[SpellDatabase[sp].level]

\* The step changed no hit points and no used-slot counter.
NoHealthNoSlotChange ==
    /\ DOMAIN characters' = DOMAIN characters
    /\ \A i \in DOMAIN characters :
          /\ characters'[i].hp = characters[i].hp
          /\ characters'[i].spell_slots_used = characters[i].spell_slots_used

\* A cast by a caster who does not know the spell, or has used every slot of
\* its level, returns false and changes no HP and no slot counter.
RejectedCastChangesNothing ==
    (CastCall(last') /\ CasterOf(last') \in DOMAIN characters
          /\ LET c == CasterOf(last')
                 sp == last'.action.spell_name
             IN ~Knows(c, sp) \/ (sp \in SpellNames /\ ~FreeSlot(c, sp))) =>
          /\ last'.ret = "false"
          /\ NoHealthNoSlotChange

\* The example: a caster with one level-1 slot, unused, at HP 5/20 casts
\* cure_wounds on itself and the d8 shows 6; the cast succeeds, the caster is
\* at hp_after and the slot is used.
CureExample(hp_after) ==
    (CastCall(last') /\ CasterOf(last') \in DOMAIN characters
          /\ last'.action.spell_name = "cure_wounds"
          /\ last'.action.target_id = NoId
          /\ last'.amount = 6
          /\ LET c == characters[CasterOf(last')]
             IN /\ c.has_spells /\ "cure_wounds" \in c.spells_known
                /\ c.hp = 5 /\ c.max_hp = 20
                /\ c.spell_slots[1] = 1 /\ c.spell_slots_used[1] = 0) =>
          /\ last'.ret = "true"
          /\ characters'[CasterOf(last')].hp = hp_after
          /\ characters'[CasterOf(last')].max_hp = 20
          /\ characters'[CasterOf(last')].spell_slots_used[1] = 1

\* C18 as stated: a cast is rejected (false) when the caster does not know the
\* spell or has no unused slot of its level, and a rejected cast changes no HP
\* and no slot counter; the caster of the example, healed with a roll of 6
\* from HP 5/20, ends at HP 11/20 with one slot used.
C18_RejectedCastKeepsState ==
    [][RejectedCastChangesNothing /\ CureExample(11)]_vars

\* C18 amended: the same rejection rule; the caster of the example ends at HP
\* 14/20 with one slot used, cure_wounds healing the d8 roll plus a fixed 3,
\* and a second cast then fails with HP still 14 and the slot counter still 1.
C18_RejectedCastKeepsStateHeal14 ==
    [][RejectedCastChangesNothing /\ CureExample(14)]_vars

\* C18 witness: the example's caster after the second, refused cast.
C18_Witness ==
    /\ CastCall(last)
    /\ last.action.spell_name = "cure_wounds"
    /\ last.ret = "false"
    /\ CasterOf(last) = "player"
    /\ characters["player"].hp = 14
    /\ characters["player"].max_hp = 20
    /\ characters["player"].spell_slots[1] = 1
    /\ characters["player"].spell_slots_used[1] = 1
    /\ game_log[Len(game_log)] = <<"no_slots", "player">>

\* The action names a target and the target is no character.
TargetUnresolved(l) ==
    l.action.target_id # NoId /\ l.action.target_id \notin DOMAIN characters

\* C19: every cast that passes the known-spell and free-slot checks adds
\* exactly one to the used-slot counter of the spell's level of the caster,
\* and changes no other slot counter, whether or not the effect succeeds; a
\* cure_wounds or magic_missile whose target_id resolves to no character
\* returns false and has still used the slot.
C19_SlotUsedOnEveryAttempt ==
    [][(CastCall(last') /\ CasterOf(last') \in DOMAIN characters
          /\ last'.action.spell_name \in SpellNames
          /\ Knows(CasterOf(last'), last'.action.spell_name)
          /\ FreeSlot(CasterOf(last'), last'.action.spell_name)) =>
          LET c == CasterOf(last')
              level == SpellDatabase[last'.action.spell_name].level
          IN /\ characters'[c].spell_slots_used =
                   [characters[c].spell_slots_used EXCEPT ![level] = @ + 1]
             /\ characters'[c].spell_slots = characters[c].spell_slots
             /\ \A i \in DOMAIN characters \ {c} :
                   characters'[i].spell_slots_used = characters[i].spell_slots_used
             /\ (TargetUnresolved(last')
                   /\ last'.action.spell_name \in {"cure_wounds", "magic_missile"}) =>
                      last'.ret = "false"]_vars

\* C19 witness: a cure_wounds aimed at an id that is no character failed and
\* the caster's level-1 slot is used.
C19_Witness ==
    /\ CastCall(last)
    /\ last.action.spell_name = "cure_wounds"
    /\ TargetUnresolved(last)
    /\ last.ret = "false"
    /\ characters[CasterOf(last)].spell_slots_used[1] = 1
    /\ \A i \in 1..Len(game_log) : game_log[i][1] \notin {"heals", "casts"}

\* The category a fireball of this caster is aimed at.
Opposing(category) ==
    CASE category = "player" -> "monster"
      [] category = "monster" -> "player"
      [] OTHER -> "none"

\* C20 as stated: an accepted fireball of a caster of category C takes the
\* rolled amount (with a floor of 0, no saving throw) off every living
\* character of the opposing category, monsters for a player and players for
\* a monster, and changes the HP of no other character, none of the caster's
\* own category in particular.
C20_FireballHitsOpposingSide ==
    [][(CastCall(last') /\ CasterOf(last') \in DOMAIN characters
          /\ last'.action.spell_name = "fireball"
          /\ Knows(CasterOf(last'), "fireball")
          /\ FreeSlot(CasterOf(last'), "fireball")) =>
          LET side == Opposing(characters[CasterOf(last')].type)
              damage == last'.amount
          IN /\ last'.ret = "true"
             /\ \A i \in DOMAIN characters :
                   characters'[i].hp =
                     IF characters[i].type = side /\ characters[i].hp > 0
                     THEN (IF characters[i].hp - damage > 0
                           THEN characters[i].hp - damage ELSE 0)
                     ELSE characters[i].hp]_vars

(***************************************************************************)
(* Inventory claims.                                                       *)
(***************************************************************************)
ItemCall(l, action_type) == l.op = "process_action" /\ l.action.type = action_type

\* The ac_bonus (attack_bonus) of the item in a slot, 0 for an empty slot.
AcBonusIn(c, slot) ==
    IF c.equipped[slot] # NoItem /\ ItemCatalog[c.equipped[slot]].has_ac_bonus
    THEN ItemCatalog[c.equipped[slot]].ac_bonus ELSE 0

AttackBonusIn(c, slot) ==
    IF c.equipped[slot] # NoItem /\ ItemCatalog[c.equipped[slot]].has_attack_bonus
    THEN ItemCatalog[c.equipped[slot]].attack_bonus ELSE 0

\* C21: after any sequence of inventory actions every slot holds nothing or
\* one item of the slot's type, the accumulated equipment AC bonus is the sum
\* of the ac_bonus of the items in the armor and shield slots, and the
\* accumulated attack bonus is the attack_bonus of the item in the weapon slot.
C21_BonusIsSumOfWornItems ==
    \A i \in DOMAIN characters :
        LET c == characters[i] IN
        c.has_inventory =>
          /\ \A k \in DOMAIN c.equipped :
                c.equipped[k] = NoItem \/ ItemCatalog[c.equipped[k]].type = k
          /\ c.equipment_ac_bonus = AcBonusIn(c, "armor") + AcBonusIn(c, "shield")
          /\ c.equipment_attack_bonus = AttackBonusIn(c, "weapon")

\* C21 witness: the chain mail was equipped into the armor slot that already
\* held it; the prior occupant was unequipped first and the bonus is 6 + 2.
C21_Witness ==
    /\ ItemCall(last, "equip")
    /\ last.action.item_name = "ChainMail"
    /\ last.ret = "true"
    /\ Len(game_log) >= 2
    /\ game_log[Len(game_log) - 1] = <<"unequips", "player">>
    /\ game_log[Len(game_log)] = <<"equips", "player">>
    /\ characters["player"].equipped["armor"] = "ChainMail"
    /\ characters["player"].equipped["shield"] = "Shield"
    /\ characters["player"].equipment_ac_bonus = 8

\* The action equipped or unequipped an armor or shield item.
ArmorOrShieldHandled(l) ==
    /\ ItemCall(l, "equip") \/ ItemCall(l, "unequip")
    /\ l.ret = "true"
    /\ Lower(l.action.item_name) \in {"chainmail", "shield"}

\* C22: after an equip or unequip of an armor or shield item, whatever was
\* equipped or unequipped before and in whatever order, the character's AC is
\* base + accumulated equipment AC bonus, with base 10 when an armor item is
\* worn and 10 + dexterity modifier otherwise; the AC is a function of the
\* worn items alone.
C22_AcFromWornItems ==
    ArmorOrShieldHandled(last) =>
        LET c == characters[CharacterIdOf(last.action)]
            base == IF c.equipped["armor"] # NoItem THEN 10
                    ELSE 10 + get_ability_modifier(c, "dexterity")
        IN c.ac = base + c.equipment_ac_bonus

\* C23: in every reachable state every item in an equipment slot of a
\* character is in the inventory list of that character.
C23_WornItemsAreOwned ==
    \A i \in DOMAIN characters :
        LET c == characters[i] IN
        \A k \in DOMAIN c.equipped :
            c.equipped[k] = NoItem
              \/ \E n \in 1..Len(c.inventory) : c.inventory[n] = c.equipped[k]

(***************************************************************************)
(* Error-handling claims.                                                  *)
(***************************************************************************)
\* The action record lacks the field its type requires.
LacksRequiredField(a) ==
    \/ a.type = "move" /\ ~a.has_position
    \/ a.type = "attack" /\ a.target_id = NoId
    \/ a.type \in {"equip", "unequip", "use_item", "drop_item"} /\ a.item_name = NoItem
    \/ a.type = "cast_spell" /\ a.spell_name = NoSpell

\* C24: a routed action that lacks its required field returns false, raises
\* nothing to the caller, and changes no character (position, HP, equipment,
\* slots) and no used movement.
C24_MissingFieldFails ==
    [][(last'.op = "process_action" /\ LacksRequiredField(last'.action)) =>
          /\ last'.ret = "false"
          /\ characters' = characters
          /\ movement_used' = movement_used]_vars

\* The call reaches the narrative agent.
NarrativeCall(l) ==
    \/ l.op = "process_action" /\ AIDMChatModule_can_handle(l.action)
    \/ l.op = "start_combat"

Fallbacks == {<<"dm", AgentPauses>>, <<"dm", DMPauses>>}

\* What a narration leaves alone: everything but the log for a routed DM
\* action; for start_combat, whose own work is the turn order and the
\* initiatives, the roster, the map, the used movement and every character's
\* position and HP.
NarrationKeepsState ==
    /\ UNCHANGED <<roster, map_data, movement_used>>
    /\ DOMAIN characters' = DOMAIN characters
    /\ \A i \in DOMAIN characters :
          /\ characters'[i].hp = characters[i].hp
          /\ characters'[i].position = characters[i].position
    /\ last'.op = "process_action" =>
          UNCHANGED <<characters, combat_active, turn_order, current_turn_index>>

\* C26: when the narrative agent fails in a call that reaches it, in opening
\* the session or in answering, the call completes without an error to its
\* caller, a neutral fallback narration is the last line logged, and the game
\* state other than the log is unchanged.
C26_AgentFailureIsContained ==
    [][(NarrativeCall(last')
          /\ \/ ~dm.dm_initialized /\ last'.dm_session # "ok"
             \/ last'.dm_reply = "fails") =>
          /\ last'.ret # "raise"
          /\ Len(game_log') > Len(game_log)
          /\ game_log'[Len(game_log')] \in Fallbacks
          /\ NarrationKeepsState]_vars

\* The action types the modules declare.
DeclaredTypes ==
    {"move", "dash", "attack", "cast_spell", "prepare_spell",
     "equip", "unequip", "use_item", "drop_item"}

\* C25: for every routed action of a declared type, no module that handles
\* the type raises in its process, also when the character was added to the
\* roster after the modules were constructed.
C25_ModulesNeverRaise ==
    [][(last'.op = "process_action" /\ last'.action.type \in DeclaredTypes) =>
          \A k \in 1..Len(modules) :
             can_handle(modules[k], last'.action) =>
                module_process_action(modules[k], CurrentState, last'.action,
                                      NoDiceRolls).ret # "raise"]_vars

\* What the stat provider answers when it has nothing for the monster, or
\* lacks the class or the race of a player.
AbsentAnswers == {"none", "class_only", "race_only"}

\* C27: add_character with an absent answer of the stat provider creates the
\* character with the fixed defaults: a player with HP 20/20, AC 15 and
\* attack bonus 5, any other category with HP 10/10, AC 12 and attack
\* bonus 3, and hp = max_hp.
C27_AbsentStatsGiveDefaults ==
    [][(last'.op = "add_character" /\ last'.provided \in AbsentAnswers) =>
          LET i == last'.action.character_id IN
          /\ i \in DOMAIN characters'
          /\ characters'[i].hp = characters'[i].max_hp
          /\ IF characters'[i].type = "player"
             THEN /\ characters'[i].max_hp = 20
                  /\ characters'[i].ac = 15
                  /\ characters'[i].attack_bonus = 5
             ELSE /\ characters'[i].max_hp = 10
                  /\ characters'[i].ac = 12
                  /\ characters'[i].attack_bonus = 3]_vars

C27_Witness ==
    /\ last.op = "add_character"
    /\ last.provided = "class_only"
    /\ last.action.character_id = "player"
    /\ characters["player"].hp = 20
    /\ characters["player"].ac = 15

(***************************************************************************)
(* Roster claims.                                                          *)
(***************************************************************************)
InTurnOrder(order, i) == \E k \in 1..Len(order) : order[k] = i

\* C29: add_character during active combat, with a new id or an id already
\* stored, leaves turn_order and current_turn_index unchanged; advancing the
\* turn leaves turn_order unchanged too, so a character that is not in
\* turn_order is never the current actor; a successful start_combat builds
\* a turn_order that contains every character.
C29_LateCharacterWaitsForNextCombat ==
    [][/\ (last'.op = "add_character" /\ combat_active) =>
             /\ UNCHANGED <<turn_order, current_turn_index, combat_active>>
             /\ last'.action.character_id \in DOMAIN characters'
       /\ last'.op \in {"advance_turn", "engine_advance_turn"} =>
             turn_order' = turn_order
       /\ \A i \in DOMAIN characters' :
             ~InTurnOrder(turn_order', i) =>
                get_current_character(
                   [CurrentState EXCEPT !.characters = characters',
                                        !.turn_order = turn_order',
                                        !.current_turn_index = current_turn_index']) # i
       /\ (last'.op = "process_action" /\ last'.action.type = "start_combat"
             /\ last'.ret = "true") =>
             \A i \in DOMAIN characters' : InTurnOrder(turn_order', i)]_vars

C29_Witness ==
    /\ combat_active
    /\ last.op = "add_character"
    /\ last.action.character_id \in DOMAIN characters
    /\ ~InTurnOrder(turn_order, last.action.character_id)
    /\ turn_order # <<>>

(***************************************************************************)
(* Log claims.                                                             *)
(***************************************************************************)
IsPrefix(s, t) == Len(s) <= Len(t) /\ SubSeq(t, 1, Len(s)) = s

\* The last min(n, Len(s)) entries of s, in order.
LastEntries(s, n) ==
    LET m == IF Len(s) < n THEN Len(s) ELSE n
    IN [k \in 1..m |-> s[Len(s) - m + k]]

\* C28: every operation leaves the previous log as a prefix of the new log,
\* and serialize_state returns exactly the last min(50, len(log)) entries in
\* order and leaves the state as it was.
C28_LogIsAppendOnly ==
    [][/\ IsPrefix(game_log, game_log')
       /\ last'.op = "serialize_state" =>
             /\ last'.returned = LastEntries(game_log, 50)
             /\ UNCHANGED gsmVars]_vars

C28_Witness ==
    /\ last.op = "serialize_state"
    /\ Len(game_log) > 50
    /\ Len(last.returned) = 50
    /\ last.returned[1] = game_log[Len(game_log) - 49]
    /\ last.returned # SubSeq(game_log, 1, 50)

(***************************************************************************)
(* Offered actions.                                                        *)
(***************************************************************************)
Offered(c) ==
    MovementModule_get_available_actions(CurrentState, c)
      \cup SpellsModule_get_available_actions(CurrentState, c)
      \cup InventoryModule_get_available_actions(CurrentState, c)

SpellOffersAgree(c) ==
    \A sp \in SpellNames :
       Offer("cast_spell", sp, 0) \in Offered(c) <=> (Knows(c, sp) /\ FreeSlot(c, sp))

DashOfferAgrees(c) ==
    Offer("dash", "", 0) \in Offered(c) <=> _handle_dash(CurrentState, c).ret = "true"

MoveOfferAgrees(c) ==
    \A o \in Offered(c) :
       o.type = "move" =>
          o.remaining = _get_character_speed(characters[c]) - movement_used[c]

ItemOffersAgree(c) ==
    \A o \in Offered(c) :
       o.type \in {"equip", "use_item"} =>
          \E k \in 1..Len(characters[c].inventory) : characters[c].inventory[k] = o.name

\* C30: after every call, what is offered to a character agrees with what a
\* call would accept in the same state: cast_spell for a spell is offered iff
\* the character knows it and has an unused slot of its level, dash is
\* offered iff a dash would be accepted, the feet shown for move are the speed
\* minus the movement used, and equip and use_item are offered only for
\* items in the inventory.
C30_OffersAgreeWithProcess ==
    last # NoCall =>
       \A c \in DOMAIN characters :
          /\ SpellOffersAgree(c)
          /\ DashOfferAgrees(c)
          /\ MoveOfferAgrees(c)
          /\ ItemOffersAgree(c)

(***************************************************************************)
(* Turn discipline claims.                                                 *)
(***************************************************************************)
\* The action types that are a character's turn action.
TurnBoundTypes ==
    {"move", "dash", "attack", "cast_spell", "equip", "unequip", "use_item",
     "drop_item"}

\* The character an action is submitted for.
ActorOf(a) == IF a.type = "attack" THEN AttackerIdOf(a) ELSE CharacterIdOf(a)

OutOfTurn(l) ==
    /\ l.op = "process_action"
    /\ l.action.type \in TurnBoundTypes
    /\ ActorOf(l.action) # get_current_character(CurrentState)

\* C31: while combat is active, a move, dash, attack, cast_spell or inventory
\* action submitted for a character other than the one at current_turn_index
\* does not succeed and changes nothing of the game state but the log.
C31_OutOfTurnActionFails ==
    [][(combat_active /\ OutOfTurn(last')) =>
          /\ last'.ret # "true"
          /\ UNCHANGED <<characters, roster, combat_active, turn_order,
                         current_turn_index, map_data, movement_used>>]_vars

(***************************************************************************)
(* Narrative agent claims.                                                 *)
(***************************************************************************)
\* The action record a function call of the agent stands for.
MappedAction(call) ==
    IF call.function = "move_character"
    THEN Move(call.character_id, call.new_position)
    ELSE Attack(call.attacker_id, call.target_id)

\* The calls submitted one after the other through the router.
RECURSIVE RoutedCalls(_, _, _)
RoutedCalls(S, calls, dice) ==
    IF calls = <<>> THEN S
    ELSE RoutedCalls(ModuleManager_process_action(modules, S,
                                                  MappedAction(Head(calls)),
                                                  dice).state,
                     Tail(calls), dice)

\* The call hands function calls of the agent to the game.
AgentActs(l) ==
    /\ l.dm_calls # <<>>
    /\ l.dm_reply = "acts"
    /\ \/ l.op = "process_ai_actions"
       \/ l.op = "process_action" /\ l.action.type = "chat_with_dm" /\ l.ret = "true"

\* C32: the move_character and attack_character calls the agent returns are
\* applied as the router applies the move and attack records they stand for:
\* every character's position and HP and the used movement after the call
\* are those after routing the records.
C32_AgentActionsAreRouted ==
    [][AgentActs(last') =>
          LET S == RoutedCalls(CurrentState, last'.dm_calls,
                          [NoDiceRolls EXCEPT !.d20 = last'.d20, !.d8 = last'.amount])
          IN /\ \A i \in DOMAIN characters :
                   /\ characters'[i].position = S.characters[i].position
                   /\ characters'[i].hp = S.characters[i].hp
             /\ movement_used' = S.movement_used]_vars

(***************************************************************************)
(* Turn loop claims.                                                       *)
(***************************************************************************)
TurnPending(k) ==
    /\ combat_active
    /\ ~is_combat_over(CurrentState)
    /\ current_turn_index = k

\* C33: under the console driver's combat loop, from every state in which
\* combat is active and not over the turn index is eventually advanced (or
\* the combat is over).
C33_TurnLoopProgresses ==
    \A k \in 0..2 :
       TurnPending(k) ~> (current_turn_index # k \/ is_combat_over(CurrentState))

\* C34: a defeated character stays in the collection at HP 0: once its HP is
\* zero, it is stored with HP 0 after every later attack, cast_spell,
\* use_item and damage.
C34_DefeatedStaysAtZero ==
    [][\A i \in DOMAIN characters :
          characters[i].hp = 0 =>
             /\ i \in DOMAIN characters'
             /\ characters'[i].hp = 0]_vars

\* C35: advance_turn sets current_turn_index to (index + 1) mod
\* len(turn_order) whatever the HP of the next character, leaves turn_order,
\* combat_active and every character's HP and position unchanged, and appends
\* at most the new-round marker to the log.
C35_AdvanceOnlyMovesPointer ==
    [][(AdvanceStep(last') /\ turn_order # <<>>) =>
          /\ current_turn_index' = (current_turn_index + 1) % Len(turn_order)
          /\ UNCHANGED <<turn_order, combat_active, roster>>
          /\ DOMAIN characters' = DOMAIN characters
          /\ \A i \in DOMAIN characters :
                /\ characters'[i].hp = characters[i].hp
                /\ characters'[i].position = characters[i].position
          /\ \/ game_log' = game_log
             \/ game_log' = Append(game_log, <<"new_round", "">>)]_vars

C35_Witness ==
    /\ AdvanceStep(last)
    /\ combat_active
    /\ get_current_character(CurrentState) # NoId
    /\ characters[get_current_character(CurrentState)].hp = 0
    /\ \E i \in DOMAIN characters : characters[i].hp > 0

(***************************************************************************)
(* Equipment round trips and slots.                                        *)
(***************************************************************************)
\* The character holds the item, and the slot of its type is empty.
CanPutOn(c, item) ==
    /\ characters[c].has_inventory
    /\ _find_item_in_inventory(characters[c], item) = item
    /\ ItemCatalog[item].type \in BaseSlots
    /\ characters[c].equipped[ItemCatalog[item].type] = NoItem

\* The character after equip and then unequip of the item.
AfterRoundTrip(c, item) ==
    _unequip_item(_equip_item(CurrentState, c, item).state, c, item).state.characters[c]

\* C36: in every state, equip followed by unequip of an armor, shield or
\* weapon item whose slot is empty gives the character the AC, the accumulated
\* equipment AC and attack bonuses and the equipment slots it had before.
C36_EquipUnequipRoundTrip ==
    \A c \in DOMAIN characters : \A item \in ItemNames :
       CanPutOn(c, item) =>
          /\ AfterRoundTrip(c, item).ac = characters[c].ac
          /\ AfterRoundTrip(c, item).equipment_ac_bonus = characters[c].equipment_ac_bonus
          /\ AfterRoundTrip(c, item).equipment_attack_bonus
                = characters[c].equipment_attack_bonus
          /\ AfterRoundTrip(c, item).equipped = characters[c].equipped

\* C37: after any sequence of inventory actions every character's set of
\* equipment slots is exactly {weapon, armor, shield}.
C37_OnlyBaseSlots ==
    \A c \in DOMAIN characters : DOMAIN characters[c].equipped = BaseSlots


\* C38: an accepted dash, at whatever point between two resets of the
\* character's turn movement, leaves the feet walked since the last reset
\* plus the feet still allowed equal to 2 x speed.
C38_DashDoublesMovement ==
    [][(DashCall(last') /\ last'.ret = "true" /\ MoverOf(last') \in DOMAIN characters) =>
          LET c == MoverOf(last')
          IN obs'.feet[c] + (SpeedOf(c) - movement_used'[c]) = 2 * SpeedOf(c)]_vars

SlotsWithinTotal ==
    \A c \in DOMAIN characters : \A level \in DOMAIN characters[c].spell_slots :
       /\ 0 <= characters[c].spell_slots_used[level]
       /\ characters[c].spell_slots_used[level] <= characters[c].spell_slots[level]

\* No step lowers a used-slot counter or changes a slot total, and a counter
\* grows by one at most, in a cast of its character at its level.
SlotsNeverRestored ==
    \A c \in DOMAIN characters :
       /\ c \in DOMAIN characters'
       /\ characters'[c].spell_slots = characters[c].spell_slots
       /\ \A level \in DOMAIN characters[c].spell_slots :
             \/ characters'[c].spell_slots_used[level]
                   = characters[c].spell_slots_used[level]
             \/ /\ characters'[c].spell_slots_used[level]
                      = characters[c].spell_slots_used[level] + 1
                /\ CastCall(last') /\ CasterOf(last') = c
                /\ last'.action.spell_name \in SpellNames
                /\ SpellDatabase[last'.action.spell_name].level = level

\* C40: in every state 0 <= spell_slots_used[level] <= spell_slots[level] for
\* every character and level, and no step lowers a used counter: a counter
\* grows only by one, in a cast that passed the slot check at that level, so
\* the casts that pass the check at a level never outnumber its slots.
C40_SlotsWithinTotal ==
    []SlotsWithinTotal /\ [][SlotsNeverRestored]_vars

\* A caster has used both of its level-1 slots and its next cast was refused
\* for want of a slot.
C40_Witness ==
    /\ CastCall(last)
    /\ last.ret = "false"
    /\ CasterOf(last) \in DOMAIN characters
    /\ characters[CasterOf(last)].spell_slots[1] = 2
    /\ characters[CasterOf(last)].spell_slots_used[1] = 2
    /\ game_log[Len(game_log)] = <<"no_slots", CasterOf(last)>>

=============================================================================
